---- MODULE Spec2Model ----
(***************************************************************************)
(* Model of the filter engine of backend/app.py: the Filter Evaluator      *)
(* (_feature_matches_filters, _apply_filters), the deterministic Query     *)
(* Parser (_parse_text_to_filters with _parse_money and friends) and its   *)
(* remote alternative (_maybe_huggingface_parse); and of the project store *)
(* of backend/storage.py (save_project, load_project).                     *)
(*                                                                         *)
(* Python values are records [t, s, n, f, l]:                                 *)
(*   t = "none"   None, which is also what dict.get gives for a missing key*)
(*   t = "bool"   n = 1 (True) or 0 (False)                                *)
(*   t = "int"    n = the integer                                          *)
(*   t = "float"  n + f / UlpsPerUnit: n the floor, f the fraction in ulps *)
(*   t = "str"    s = the sequence of characters                           *)
(*   t = "list"   l = the sequence of items (values)                       *)
(* Characters are one-character strings; the em dash and the en dash are   *)
(* the atoms "emdash" and "endash".                                        *)
(***************************************************************************)
EXTENDS Integers, Sequences, FiniteSets, TLC

VARIABLES query, filters, features, i, ids, total, pc,
          key, model, reply,
          projects, result, clock, lastSaved

\* The environment of the remote model, and the project table.
remote == <<key, model, reply>>
store == <<projects, result, clock, lastSaved>>

vars == <<query, filters, features, i, ids, total, pc, remote, store>>

(***************************************************************************)
(* Python values                                                           *)
(***************************************************************************)
UlpsPerUnit == 10 * 1000 * 1000

PyNone == [t |-> "none", s |-> <<>>, n |-> 0, f |-> 0, l |-> <<>>]
PyBool(b) == [t |-> "bool", s |-> <<>>, n |-> IF b THEN 1 ELSE 0, f |-> 0, l |-> <<>>]
PyInt(k) == [t |-> "int", s |-> <<>>, n |-> k, f |-> 0, l |-> <<>>]
PyFloat(w, u) == [t |-> "float", s |-> <<>>, n |-> w, f |-> u, l |-> <<>>]
PyStr(cs) == [t |-> "str", s |-> cs, n |-> 0, f |-> 0, l |-> <<>>]
PyList(items) == [t |-> "list", s |-> <<>>, n |-> 0, f |-> 0, l |-> items]

\* bool(v): the truth value Python's `or` and `not` test.
Truthy(v) ==
    CASE v.t = "none" -> FALSE
      [] v.t = "bool" -> v.n = 1
      [] v.t = "int" -> v.n # 0
      [] v.t = "float" -> v.n # 0 \/ v.f # 0
      [] v.t = "str" -> v.s # <<>>
      [] OTHER -> v.l # <<>>

(***************************************************************************)
(* Characters and str methods                                              *)
(***************************************************************************)
Lowers == <<"a","b","c","d","e","f","g","h","i","j","k","l","m",
            "n","o","p","q","r","s","t","u","v","w","x","y","z">>
Uppers == <<"A","B","C","D","E","F","G","H","I","J","K","L","M",
            "N","O","P","Q","R","S","T","U","V","W","X","Y","Z">>
Digits == <<"0","1","2","3","4","5","6","7","8","9">>

IsLower(c) == \E k \in 1..26 : Lowers[k] = c
IsUpper(c) == \E k \in 1..26 : Uppers[k] = c
IsDigit(c) == \E k \in 1..10 : Digits[k] = c
IsSpace(c) == c = " "
DigitVal(c) == (CHOOSE k \in 1..10 : Digits[k] = c) - 1

UpperChar(c) == IF IsLower(c) THEN Uppers[CHOOSE k \in 1..26 : Lowers[k] = c] ELSE c
LowerChar(c) == IF IsUpper(c) THEN Lowers[CHOOSE k \in 1..26 : Uppers[k] = c] ELSE c

\* str.upper(), str.lower()
StrUpper(cs) == [k \in 1..Len(cs) |-> UpperChar(cs[k])]
StrLower(cs) == [k \in 1..Len(cs) |-> LowerChar(cs[k])]

\* str.strip(): leading and trailing whitespace removed.
RECURSIVE LStrip(_)
LStrip(cs) == IF cs # <<>> /\ IsSpace(Head(cs)) THEN LStrip(Tail(cs)) ELSE cs
RECURSIVE RStrip(_)
RStrip(cs) ==
    IF cs # <<>> /\ IsSpace(cs[Len(cs)]) THEN RStrip(SubSeq(cs, 1, Len(cs) - 1)) ELSE cs
StrStrip(cs) == RStrip(LStrip(cs))

\* str.replace(old, new) for a one-character old; new is a string.
RECURSIVE StrReplace(_, _, _)
StrReplace(cs, old, new) ==
    IF cs = <<>> THEN <<>>
    ELSE (IF Head(cs) = old THEN new ELSE <<Head(cs)>>) \o StrReplace(Tail(cs), old, new)

\* str.startswith(prefix)
StartsWith(cs, prefix) ==
    Len(prefix) <= Len(cs) /\ SubSeq(cs, 1, Len(prefix)) = prefix

(***************************************************************************)
(* Conversions: float(v), int(v), str(v)                                   *)
(***************************************************************************)
\* The result of a conversion that may raise: ok = FALSE is the exception.
\* k is "fin" for the finite number x + f / UlpsPerUnit (x the floor, f = 0
\* for an int), "nan", "inf" or "ninf" for the special floats.
NoNum == [ok |-> FALSE, k |-> "fin", x |-> 0, f |-> 0]
Fin(x, f) == [ok |-> TRUE, k |-> "fin", x |-> x, f |-> f]
Special(k) == [ok |-> TRUE, k |-> k, x |-> 0, f |-> 0]

AllDigits(cs) == \A k \in 1..Len(cs) : IsDigit(cs[k])

RECURSIVE DigitsVal(_)
DigitsVal(cs) ==
    IF cs = <<>> THEN 0
    ELSE DigitsVal(SubSeq(cs, 1, Len(cs) - 1)) * 10 + DigitVal(cs[Len(cs)])

\* The fraction digits fs as ulps: seven decimal places are kept.
FracUlps(fs) ==
    LET seven == [k \in 1..7 |-> IF k <= Len(fs) THEN fs[k] ELSE "0"]
    IN  DigitsVal(seven)

\* An unsigned decimal literal: digits, digits.digits, digits. or .digits
ParseDecimal(cs) ==
    LET dots == {k \in 1..Len(cs) : cs[k] = "."}
    IN  IF Cardinality(dots) > 1 THEN NoNum
        ELSE IF dots = {}
        THEN IF cs # <<>> /\ AllDigits(cs) THEN Fin(DigitsVal(cs), 0) ELSE NoNum
        ELSE LET d == CHOOSE k \in dots : TRUE
                 ip == SubSeq(cs, 1, d - 1)
                 fp == SubSeq(cs, d + 1, Len(cs))
             IN  IF AllDigits(ip) /\ AllDigits(fp) /\ Len(ip) + Len(fp) > 0
                 THEN Fin(DigitsVal(ip), FracUlps(fp))
                 ELSE NoNum

Negated(r) ==
    IF ~r.ok THEN r
    ELSE IF r.k = "fin"
    THEN IF r.f = 0 THEN Fin(0 - r.x, 0) ELSE Fin(0 - r.x - 1, UlpsPerUnit - r.f)
    ELSE IF r.k = "inf" THEN Special("ninf")
    ELSE IF r.k = "ninf" THEN Special("inf")
    ELSE r

\* float(str): surrounding whitespace ignored, optional sign, a decimal
\* literal or nan/inf/infinity in any case; anything else is ValueError.
FloatOfUnsigned(cs) ==
    LET low == StrLower(cs)
    IN  IF low = <<"n","a","n">> THEN Special("nan")
        ELSE IF low = <<"i","n","f">> \/ low = <<"i","n","f","i","n","i","t","y">>
        THEN Special("inf")
        ELSE ParseDecimal(cs)

FloatOfStr(cs) ==
    LET t == StrStrip(cs)
    IN  IF t # <<>> /\ Head(t) = "-" THEN Negated(FloatOfUnsigned(Tail(t)))
        ELSE IF t # <<>> /\ Head(t) = "+" THEN FloatOfUnsigned(Tail(t))
        ELSE FloatOfUnsigned(t)

\* float(v): TypeError for None and lists.
ToFloat(v) ==
    CASE v.t = "bool" -> Fin(v.n, 0)
      [] v.t = "int" -> Fin(v.n, 0)
      [] v.t = "float" -> Fin(v.n, v.f)
      [] v.t = "str" -> FloatOfStr(v.s)
      [] OTHER -> NoNum

Trunc(w, u) == IF w >= 0 \/ u = 0 THEN w ELSE w + 1

\* int(str): surrounding whitespace ignored, optional sign, digits only.
IntOfStr(cs) ==
    LET t == StrStrip(cs)
        neg == t # <<>> /\ Head(t) = "-"
        body == IF t # <<>> /\ (Head(t) = "-" \/ Head(t) = "+") THEN Tail(t) ELSE t
    IN  IF body # <<>> /\ AllDigits(body)
        THEN Fin(IF neg THEN 0 - DigitsVal(body) ELSE DigitsVal(body), 0)
        ELSE NoNum

\* int(v): a float is truncated towards zero; TypeError for None and lists.
ToInt(v) ==
    CASE v.t = "bool" -> Fin(v.n, 0)
      [] v.t = "int" -> Fin(v.n, 0)
      [] v.t = "float" -> Fin(Trunc(v.n, v.f), 0)
      [] v.t = "str" -> IntOfStr(v.s)
      [] OTHER -> NoNum

RECURSIVE NatStr(_)
NatStr(k) == IF k < 10 THEN <<Digits[k + 1]>> ELSE NatStr(k \div 10) \o <<Digits[(k % 10) + 1]>>
IntStr(k) == IF k < 0 THEN <<"-">> \o NatStr(0 - k) ELSE NatStr(k)

RECURSIVE DropTrailingZeros(_)
DropTrailingZeros(cs) ==
    IF Len(cs) > 1 /\ cs[Len(cs)] = "0" THEN DropTrailingZeros(SubSeq(cs, 1, Len(cs) - 1))
    ELSE cs

\* repr(float) of a value with at most seven decimal places.
FloatStr(w, u) ==
    LET aw == IF w >= 0 THEN w ELSE IF u = 0 THEN 0 - w ELSE 0 - w - 1
        au == IF w >= 0 \/ u = 0 THEN u ELSE UlpsPerUnit - u
        fr == NatStr(au)
        pad == [k \in 1..(7 - Len(fr)) |-> "0"]
    IN  (IF w < 0 THEN <<"-">> ELSE <<>>) \o NatStr(aw) \o <<".">>
            \o DropTrailingZeros(pad \o fr)

ScalarStr(v) ==
    CASE v.t = "none" -> <<"N","o","n","e">>
      [] v.t = "bool" -> IF v.n = 1 THEN <<"T","r","u","e">> ELSE <<"F","a","l","s","e">>
      [] v.t = "int" -> IntStr(v.n)
      [] v.t = "float" -> FloatStr(v.n, v.f)
      [] OTHER -> v.s

\* repr(item) inside str(list): a string is quoted.
ItemRepr(v) == IF v.t = "str" THEN <<"'">> \o v.s \o <<"'">> ELSE ScalarStr(v)

RECURSIVE JoinRepr(_)
JoinRepr(items) ==
    IF items = <<>> THEN <<>>
    ELSE IF Len(items) = 1 THEN ItemRepr(items[1])
    ELSE ItemRepr(items[1]) \o <<",", " ">> \o JoinRepr(Tail(items))

\* str(v)
ToStr(v) == IF v.t = "list" THEN <<"[">> \o JoinRepr(v.l) \o <<"]">> ELSE ScalarStr(v)

(***************************************************************************)
(* Filter Evaluator: _norm_zone, _feature_matches_filters, _apply_filters  *)
(***************************************************************************)
\* A candidate zoning code of at most this length matches by prefix.
PrefixMaxLen == 3

\* 1e-6, the tolerance of '=' on height_m, in ulps.
HeightEps == UlpsPerUnit \div 1000000

\* _norm_zone on a string.
NormZone(z) ==
    IF z = <<>> THEN <<>>
    ELSE LET up == StrReplace(StrUpper(z), " ", <<>>)
         IN  StrReplace(StrReplace(StrReplace(StrReplace(up,
                 "emdash", <<"-">>), "endash", <<"-">>), "_", <<"-">>), "/", <<"-">>)

\* `(v or "")` followed by a str method: a truthy value that is no string has
\* no upper()/strip() and raises AttributeError.
TextRaises(v) == Truthy(v) /\ v.t # "str"
TextOf(v) == IF Truthy(v) /\ v.t = "str" THEN v.s ELSE <<>>

\* `float(v) if v is not None else None` under try/except: NoNum stands for None.
FloatProp(v) == IF v.t = "none" THEN NoNum ELSE ToFloat(v)
\* float() of a feature value yields no nan/inf here only for numbers; a string
\* "nan" does. int() of a special float raises, which leaves None.
IntProp(v) == IF v.t = "none" THEN NoNum ELSE ToInt(v)

\* The locals _feature_matches_filters computes before its loop.
Coerced(props) ==
    [raised |-> TextRaises(props.zoning) \/ TextRaises(props.community),
     zoning |-> NormZone(TextOf(props.zoning)),
     assessed_value |-> FloatProp(props.assessed_value),
     height_m |-> FloatProp(props.height_m),
     year |-> IntProp(props.year),
     community |-> StrLower(StrStrip(TextOf(props.community)))]

Rank(a) == IF a.k = "inf" THEN 1 ELSE IF a.k = "ninf" THEN 0 - 1 ELSE 0
\* a < b, a > b, a == b on Python numbers; every comparison with nan is False.
NumLt(a, b) ==
    /\ a.k # "nan" /\ b.k # "nan"
    /\ IF a.k = "fin" /\ b.k = "fin" THEN a.x < b.x \/ (a.x = b.x /\ a.f < b.f)
       ELSE Rank(a) < Rank(b)
NumGt(a, b) == NumLt(b, a)
NumEq(a, b) ==
    /\ a.k # "nan" /\ b.k # "nan"
    /\ IF a.k = "fin" /\ b.k = "fin" THEN a.x = b.x /\ a.f = b.f ELSE a.k = b.k
\* abs(a - b) < 1e-6
NumNear(a, b) ==
    /\ a.k = "fin" /\ b.k = "fin"
    /\ a.x - b.x \in {0 - 1, 0, 1}
    /\ LET d == (a.x - b.x) * UlpsPerUnit + a.f - b.f
       IN  (IF d >= 0 THEN d ELSE 0 - d) < HeightEps

\* The zoning branch: wanted codes, OR-combined.
Wanted(val) ==
    LET items == IF val.t = "list" THEN val.l ELSE <<val>>
    IN  [k \in 1..Len(items) |-> StrUpper(StrStrip(ToStr(items[k])))]

\* Mutant of CodeMatches: every candidate code matches by prefix, whatever
\* its length.
CodeMatchesAnyPrefix(code, zoning) ==
    LET code_norm == NormZone(code)
    IN  code_norm # <<>> /\ StartsWith(zoning, code_norm)

CodeMatches(code, zoning) ==
    LET code_norm == NormZone(code)
    IN  /\ code_norm # <<>>
        /\ \/ Len(code_norm) <= PrefixMaxLen /\ StartsWith(zoning, code_norm)
           \/ zoning = code_norm

RECURSIVE AnyCodeMatches(_, _)
AnyCodeMatches(wanted, zoning) ==
    IF wanted = <<>> THEN FALSE
    ELSE IF CodeMatches(Head(wanted), zoning) THEN TRUE
    ELSE AnyCodeMatches(Tail(wanted), zoning)

ZoningClauseOk(c, x) == AnyCodeMatches(Wanted(c.value), x.zoning)

\* Mutant of CompareOk: an operator that is none of '<', '>', '=' fails.
CompareOkKnownOperator(op, a, v) ==
    /\ op \in {"<", ">", "="}
    /\ ~(op = "<" /\ ~NumLt(a, v))
    /\ ~(op = ">" /\ ~NumGt(a, v))
    /\ ~(op = "=" /\ ~NumEq(a, v))

\* The assessed_value and year branches: exact '='.
CompareOk(op, a, v) ==
    /\ ~(op = "<" /\ ~NumLt(a, v))
    /\ ~(op = ">" /\ ~NumGt(a, v))
    /\ ~(op = "=" /\ ~NumEq(a, v))

\* The height_m branch: '=' within the tolerance.
HeightCompareOk(op, a, v) ==
    /\ ~(op = "<" /\ ~NumLt(a, v))
    /\ ~(op = ">" /\ ~NumGt(a, v))
    /\ ~(op = "=" /\ ~NumNear(a, v))

\* Mutant of AssessedClauseOk: a feature without the attribute is let through.
AssessedClauseSkipMissing(c, x) ==
    IF ~x.assessed_value.ok THEN TRUE
    ELSE LET v == ToFloat(c.value)
         IN  IF ~v.ok THEN FALSE ELSE CompareOk(c.operator, x.assessed_value, v)

AssessedClauseOk(c, x) ==
    IF ~x.assessed_value.ok THEN FALSE
    ELSE LET v == ToFloat(c.value)
         IN  IF ~v.ok THEN FALSE ELSE CompareOk(c.operator, x.assessed_value, v)

HeightClauseOk(c, x) ==
    IF ~x.height_m.ok THEN FALSE
    ELSE LET v == ToFloat(c.value)
         IN  IF ~v.ok THEN FALSE ELSE HeightCompareOk(c.operator, x.height_m, v)

YearClauseOk(c, x) ==
    IF ~x.year.ok THEN FALSE
    ELSE LET v == ToInt(c.value)
         IN  IF ~v.ok THEN FALSE ELSE CompareOk(c.operator, x.year, v)

\* Mutant of CommunityClauseOk: the `not target` test is missing.
CommunityClauseNoEmptyTest(c, x) ==
    LET target == StrLower(StrStrip(ToStr(c.value)))
    IN  ~(x.community # target)

CommunityClauseOk(c, x) ==
    LET target == StrLower(StrStrip(ToStr(c.value)))
    IN  ~(target = <<>> \/ x.community # target)

\* Mutant of ClauseOk: a clause on an unknown attribute rejects the feature.
ClauseOkKnownOnly(c, x) ==
    CASE c.attribute = "zoning" -> ZoningClauseOk(c, x)
      [] c.attribute = "assessed_value" -> AssessedClauseOk(c, x)
      [] c.attribute = "height_m" -> HeightClauseOk(c, x)
      [] c.attribute = "year" -> YearClauseOk(c, x)
      [] c.attribute = "community" -> CommunityClauseOk(c, x)
      [] OTHER -> FALSE

\* One pass of the loop body over clause c: FALSE is `return False`.
ClauseOk(c, x) ==
    CASE c.attribute = "zoning" -> ZoningClauseOk(c, x)
      [] c.attribute = "assessed_value" -> AssessedClauseOk(c, x)
      [] c.attribute = "height_m" -> HeightClauseOk(c, x)
      [] c.attribute = "year" -> YearClauseOk(c, x)
      [] c.attribute = "community" -> CommunityClauseOk(c, x)
      [] OTHER -> TRUE

\* Mutant of MatchesFrom: the first clause alone decides (the loop returns
\* after one clause).
MatchesFirst(x, fs, k) == IF fs = <<>> THEN TRUE ELSE ClauseOk(fs[1], x)

\* Mutant of MatchesFrom: the verdict of the last clause overwrites the others
\* (an `ok = ...` without the early return).
MatchesLast(x, fs, k) == IF fs = <<>> THEN TRUE ELSE ClauseOk(fs[Len(fs)], x)

\* The loop over the clauses, returning at the first failing clause.
RECURSIVE MatchesFrom(_, _, _)
MatchesFrom(x, fs, k) ==
    IF k > Len(fs) THEN TRUE
    ELSE IF ~ClauseOk(fs[k], x) THEN FALSE
    ELSE MatchesFrom(x, fs, k + 1)

\* _feature_matches_filters: "raise", "true" or "false".
FeatureMatchesFilters(props, fs) ==
    LET x == Coerced(props)
    IN  IF x.raised THEN "raise"
        ELSE IF MatchesFrom(x, fs, 1) THEN "true" ELSE "false"

\* Mutant of IdMissing: `if not fid` instead of `if fid is None`.
IdFalsy(fid) == ~Truthy(fid)

\* `fid is None`
IdMissing(fid) == fid.t = "none"
\* set.add(fid) raises TypeError for an unhashable fid (a list).
Hashable(fid) == fid.t # "list"

\* Mutant of LoopBody: a feature is counted only when it matches with a new id.
LoopBodyCountNew(acc, props, fs) ==
    IF IdMissing(props.id) THEN acc
    ELSE LET verdict == FeatureMatchesFilters(props, fs)
         IN  IF verdict = "raise" THEN [acc EXCEPT !.raised = TRUE]
             ELSE IF verdict = "false" THEN [acc EXCEPT !.total = acc.total + 1]
             ELSE IF ~Hashable(props.id) THEN [acc EXCEPT !.raised = TRUE]
             ELSE [acc EXCEPT !.ids = acc.ids \cup {props.id},
                              !.total = Cardinality(acc.ids \cup {props.id})
                                        + (acc.total - Cardinality(acc.ids))]

\* Mutant of LoopBody: the last feature of an id decides, a non-matching
\* feature discards the id.
LoopBodyLastDecides(acc, props, fs) ==
    IF IdMissing(props.id) THEN acc
    ELSE LET verdict == FeatureMatchesFilters(props, fs)
             counted == [acc EXCEPT !.total = acc.total + 1]
         IN  IF verdict = "raise" THEN [counted EXCEPT !.raised = TRUE]
             ELSE IF verdict = "false" THEN [counted EXCEPT !.ids = acc.ids \ {props.id}]
             ELSE IF ~Hashable(props.id) THEN [counted EXCEPT !.raised = TRUE]
             ELSE [counted EXCEPT !.ids = acc.ids \cup {props.id}]

\* One iteration of _apply_filters' loop on the accumulator [ids, total, raised].
LoopBody(acc, props, fs) ==
    IF IdMissing(props.id) THEN acc
    ELSE LET verdict == FeatureMatchesFilters(props, fs)
             counted == [acc EXCEPT !.total = acc.total + 1]
         IN  IF verdict = "raise" THEN [counted EXCEPT !.raised = TRUE]
             ELSE IF verdict = "false" THEN counted
             ELSE IF ~Hashable(props.id) THEN [counted EXCEPT !.raised = TRUE]
             ELSE [counted EXCEPT !.ids = acc.ids \cup {props.id}]

\* _apply_filters as a function of its arguments: the result, or raised.
RECURSIVE ApplyFrom(_, _, _, _)
ApplyFrom(acc, fs, feats, k) ==
    IF acc.raised \/ k > Len(feats) THEN acc
    ELSE ApplyFrom(LoopBody(acc, feats[k], fs), fs, feats, k + 1)

ApplyFilters(fs, feats) ==
    ApplyFrom([ids |-> {}, total |-> 0, raised |-> FALSE], fs, feats, 1)

(***************************************************************************)
(* Inputs                                                                  *)
(***************************************************************************)
MaxFeatures == 2
MaxClauses == 2

SeqsUpTo(S, n) == UNION {[1..k -> S] : k \in 0..n}

Feature(id, zoning, av, h, y, comm) ==
    [id |-> id, zoning |-> zoning, assessed_value |-> av, height_m |-> h,
     year |-> y, community |-> comm]
Clause(attr, op, val) == [attribute |-> attr, operator |-> op, value |-> val]

Half == UlpsPerUnit \div 2
Num(k) == PyFloat(k, 0)

sRC == <<"R","C">>
sRCG == <<"R","C","-","G">>
sRCGX == <<"R","C","-","G","X">>
sDt == <<"D","t">>

\* A well-formed feature, as fetch_parcels_with_attrs builds them.
Base == Feature(PyInt(1), PyStr(sRCG), Num(5), Num(2), PyInt(3), PyStr(sDt))

fSame == Feature(PyInt(1), PyStr(<<"r","c","_","g","x">>), Num(3), Num(3), PyInt(2),
                 PyStr(<<" ","d","t"," ">>))
fBare == Feature(PyInt(2), PyNone, PyNone, PyNone, PyNone, PyNone)
fOdd == Feature(PyInt(2), PyStr(<<"N","o","n","e">>), PyStr(<<"4">>),
                PyFloat(2, 5), PyFloat(3, Half),
                PyStr(<<"5">>))

cZoneRC == Clause("zoning", "in", PyList(<<PyStr(sRC)>>))
cZoneRCG == Clause("zoning", "in", PyStr(sRCG))
cZoneNone == Clause("zoning", "in", PyNone)
cValueLt == Clause("assessed_value", "<", PyFloat(4, Half))
cValueGtStr == Clause("assessed_value", ">", PyStr(<<"4">>))
cValueIn == Clause("assessed_value", "in", PyInt(1))
cHeightEq == Clause("height_m", "=", Num(2))
cYearEq == Clause("year", "=", PyInt(3))
cCommDt == Clause("community", "=", PyStr(<<"d","T">>))
cCommFive == Clause("community", "=", PyInt(5))
\* Clauses on attributes the evaluator does not know; "None" is a missing key.
cPrice == Clause("price", "<", PyNone)
cNoAttr == Clause("None", "None", PyStr(sRC))

\* A scenario is a set of features and a set of clauses; the inputs of a run
\* are a feature list and an expression drawn from one scenario.
Scenario(fs, cs) == [features |-> fs, clauses |-> cs]

Scenarios ==
    { Scenario({Base, [Base EXCEPT !.id = PyNone], [Base EXCEPT !.id = PyInt(0)], fSame},
               {cZoneRC, cValueLt, cCommDt, cPrice}),
      Scenario({Base, [Base EXCEPT !.id = PyList(<<PyInt(1)>>)], fBare, fOdd},
               {cZoneNone, cValueGtStr, cHeightEq, cYearEq}),
      Scenario({Base, [Base EXCEPT !.id = PyNone],
                [Base EXCEPT !.id = PyInt(2), !.zoning = PyInt(5)],
                [Base EXCEPT !.id = PyInt(2), !.community = PyInt(5)]},
               {cZoneRCG, cCommFive, cNoAttr, cValueIn}),
      Scenario({fSame, fBare, fOdd, [Base EXCEPT !.id = PyNone]},
               {cZoneRC, cValueIn, cCommFive, cNoAttr}) }

\* Zoning: every feature zoning below meets every candidate value below.
Zoned(id, z) == [Base EXCEPT !.id = id, !.zoning = z]
ZoneClause(val) == Clause("zoning", "in", val)
NoId == [Base EXCEPT !.id = PyNone]

ZoningFeatureSets ==
    { {Zoned(PyInt(1), PyStr(sRCG)), Zoned(PyInt(1), PyStr(sRCGX)),
       Zoned(PyInt(2), PyStr(<<"r","c","_","g">>)), Zoned(PyInt(2), PyNone), NoId},
      {Zoned(PyInt(1), PyStr(<<>>)), Zoned(PyInt(1), PyStr(<<"R","C","G","X">>)),
       Zoned(PyInt(2), PyStr(<<"r"," ","c","/","g">>)), Zoned(PyInt(2), PyStr(sRC)), NoId},
      {Zoned(PyInt(1), PyStr(<<"R","C","emdash","G">>)), Zoned(PyInt(1), PyStr(<<"R">>)),
       Zoned(PyInt(2), PyStr(<<"R","C","endash","G","X">>)),
       Zoned(PyInt(2), PyStr(<<" ","R","C","-","G"," ">>)), NoId} }

ZoningClauseSets ==
    { {ZoneClause(PyStr(sRC)), ZoneClause(PyStr(sRCG)),
       ZoneClause(PyStr(<<"r","c","_","g"," ">>)), ZoneClause(PyList(<<>>))},
      {ZoneClause(PyList(<<PyStr(<<>>), PyStr(sRCG)>>)),
       ZoneClause(PyList(<<PyStr(<<"X">>), PyStr(<<"r">>)>>)),
       ZoneClause(PyStr(<<"R","C","G">>)), ZoneClause(PyStr(<<>>))},
      {ZoneClause(PyStr(<<"R","C","_">>)), ZoneClause(PyStr(<<" ","r"," ","c"," ">>)),
       ZoneClause(PyStr(sRCGX)), ZoneClause(PyList(<<PyStr(<<" ">>), PyStr(<<"Z","Z">>)>>))} }

ZoningScenarios == {Scenario(fs, cs) : fs \in ZoningFeatureSets, cs \in ZoningClauseSets}

\* Numeric attributes: features that lack the attribute or carry a value that
\* is no number, and clauses with every kind of operator and value.
sAbc == <<"a","b","c">>

NumericScenarios ==
    { Scenario({Base, [Base EXCEPT !.id = PyInt(2), !.assessed_value = PyNone],
                [Base EXCEPT !.assessed_value = PyStr(sAbc)],
                [Base EXCEPT !.id = PyInt(2), !.assessed_value = PyList(<<Num(5)>>)], NoId},
               {Clause("assessed_value", "<", Num(9)), Clause("assessed_value", "in", PyInt(1)),
                Clause("assessed_value", "None", Num(5)), Clause("assessed_value", "=", PyStr(sAbc))}),
      Scenario({Base, [Base EXCEPT !.id = PyInt(2), !.height_m = PyNone],
                [Base EXCEPT !.height_m = PyStr(<<>>)],
                [Base EXCEPT !.id = PyInt(2), !.height_m = PyFloat(2, 5)], NoId},
               {Clause("height_m", ">", Num(1)), Clause("height_m", "<=", Num(1)),
                Clause("height_m", "=", Num(2)), Clause("height_m", "None", PyNone)}),
      Scenario({Base, [Base EXCEPT !.id = PyInt(2), !.year = PyNone],
                [Base EXCEPT !.year = PyStr(<<"2",".","5">>)],
                [Base EXCEPT !.id = PyInt(2), !.year = PyFloat(3, Half)], NoId},
               {Clause("year", "=", PyInt(3)), Clause("year", "in", PyInt(0)),
                Clause("year", ">", PyInt(0)), Clause("year", "<", PyStr(<<"9">>))}),
      Scenario({fBare, [Base EXCEPT !.year = PyNone], [Base EXCEPT !.height_m = PyNone],
                [Base EXCEPT !.id = PyInt(2), !.assessed_value = PyStr(<<"n","a","n">>)], NoId},
               {Clause("assessed_value", "!=", Num(5)), Clause("height_m", "in", Num(2)),
                Clause("year", "None", PyInt(3)), cPrice}) }

\* Community: feature values and clause values that differ in case and in
\* surrounding whitespace, and blank ones.
sDowntown == <<"D","o","w","n","t","o","w","n">>
sSpacedDowntown == <<" "," ","d","o","w","n","t","o","w","n"," ">>
Located(id, comm) == [Base EXCEPT !.id = id, !.community = comm]
CommClause(val) == Clause("community", "=", val)

CommunityFeatureSets ==
    { {Located(PyInt(1), PyStr(sSpacedDowntown)), Located(PyInt(2), PyNone),
       Located(PyInt(2), PyStr(<<>>)), Located(PyInt(1), PyStr(<<"U","p">>)), NoId},
      {Located(PyInt(1), PyStr(sDt)), Located(PyInt(2), PyStr(<<" ">>)),
       Located(PyInt(2), PyStr(<<"d"," ","t">>)), Located(PyInt(1), PyStr(<<" ","D","T">>)),
       NoId} }

CommunityClauseSets ==
    { {CommClause(PyStr(sDowntown)), CommClause(PyStr(<<>>)),
       CommClause(PyStr(<<" "," ">>)), CommClause(PyStr(<<"u","P"," ">>))},
      {CommClause(PyStr(<<"d","T">>)), CommClause(PyStr(<<" ","D","t"," ">>)),
       CommClause(PyStr(<<"D"," ","T">>)), cPrice} }

CommunityScenarios ==
    {Scenario(fs, cs) : fs \in CommunityFeatureSets, cs \in CommunityClauseSets}

(***************************************************************************)
(* Regular expressions: the backtracking matcher of Python's re            *)
(***************************************************************************)
\* A pattern is a sequence of nodes. Every node is a record of one shape:
\*   "set"/"nset"   one character in (not in) cs
\*   "lit"/"liti"   the characters w (under re.I: in either case)
\*   "rep"          sub repeated lo..hi times, lazy or greedy
\*   "alt"          the first alternative of alts that lets the rest match
\*   "open"/"close" the bounds of capture group g
\*   "wordb", "bos", "eos"   \b, ^ and $
Unbounded == 0 - 1

Node(op) ==
    [op |-> op, cs |-> {}, w |-> <<>>, sub |-> <<>>, alts |-> <<>>,
     lo |-> 0, hi |-> 0, lazy |-> FALSE, g |-> 0]
RSet(cs) == [Node("set") EXCEPT !.cs = cs]
RNotSet(cs) == [Node("nset") EXCEPT !.cs = cs]
RLit(w) == [Node("lit") EXCEPT !.w = w]
RLitI(w) == [Node("liti") EXCEPT !.w = w]
RRep(sub, lo, hi, lazy) == [Node("rep") EXCEPT !.sub = sub, !.lo = lo, !.hi = hi, !.lazy = lazy]
RAlt(alts) == [Node("alt") EXCEPT !.alts = alts]
ROpen(g) == [Node("open") EXCEPT !.g = g]
RClose(g) == [Node("close") EXCEPT !.g = g]
RWordB == Node("wordb")
RBos == Node("bos")
REos == Node("eos")

LowerSet == {Lowers[k] : k \in 1..26}
UpperSet == {Uppers[k] : k \in 1..26}
DigitSet == {Digits[k] : k \in 1..10}

\* \w
IsWordChar(c) == IsLower(c) \/ IsUpper(c) \/ IsDigit(c) \/ c = "_"

\* The capture groups: o the place the group was last opened, a..b - 1 the
\* text it captured; a = 0 is a group that took no part in the match.
Groups == {1, 2}
NoCaps == [g \in Groups |-> [o |-> 0, a |-> 0, b |-> 0]]
NoMatch == [ok |-> FALSE, start |-> 0, end |-> 0, caps |-> NoCaps]

\* \b at pos: a word character on exactly one side.
AtWordBoundary(s, pos) ==
    LET before == pos > 1 /\ IsWordChar(s[pos - 1])
        after == pos <= Len(s) /\ IsWordChar(s[pos])
    IN  before # after

\* The number of characters of s from pos on that are in cs.
RunLength(cs, s, pos) ==
    LET runs == {k \in 0..(Len(s) - pos + 1) : \A j \in 0..(k - 1) : s[pos + j] \in cs}
    IN  CHOOSE k \in runs : \A j \in runs : k >= j

\* The nodes matched against s from pos on: the first way to match in the
\* order a backtracking matcher tries them.
RECURSIVE MatchList(_, _, _, _)
RECURSIVE MatchAlts(_, _, _, _, _)
MatchList(nodes, s, pos, caps) ==
    IF nodes = <<>> THEN [ok |-> TRUE, start |-> 0, end |-> pos, caps |-> caps]
    ELSE
    LET nd == Head(nodes)
        rest == Tail(nodes)
        last == pos + Len(nd.w) - 1
    IN  CASE nd.op = "set" ->
                IF pos <= Len(s) /\ s[pos] \in nd.cs
                THEN MatchList(rest, s, pos + 1, caps) ELSE NoMatch
          [] nd.op = "nset" ->
                IF pos <= Len(s) /\ s[pos] \notin nd.cs
                THEN MatchList(rest, s, pos + 1, caps) ELSE NoMatch
          [] nd.op = "lit" ->
                IF last <= Len(s) /\ SubSeq(s, pos, last) = nd.w
                THEN MatchList(rest, s, last + 1, caps) ELSE NoMatch
          [] nd.op = "liti" ->
                IF last <= Len(s) /\ StrLower(SubSeq(s, pos, last)) = nd.w
                THEN MatchList(rest, s, last + 1, caps) ELSE NoMatch
          [] nd.op = "rep" ->
                IF Len(nd.sub) = 1 /\ nd.sub[1].op = "set"
                THEN \* one character class: the longest run that lets the rest
                     \* match (the shortest for a lazy repeat)
                     LET run == RunLength(nd.sub[1].cs, s, pos)
                         top == IF nd.hi = Unbounded \/ run < nd.hi THEN run ELSE nd.hi
                         counts == {k \in nd.lo..top : MatchList(rest, s, pos + k, caps).ok}
                         best == IF nd.lazy
                                 THEN CHOOSE k \in counts : \A j \in counts : k <= j
                                 ELSE CHOOSE k \in counts : \A j \in counts : k >= j
                     IN  IF counts = {} THEN NoMatch
                         ELSE MatchList(rest, s, pos + best, caps)
                ELSE
                LET again == RRep(nd.sub, IF nd.lo > 0 THEN nd.lo - 1 ELSE 0,
                                  IF nd.hi = Unbounded THEN Unbounded ELSE nd.hi - 1,
                                  nd.lazy)
                    more == IF nd.hi # 0
                            THEN MatchList(nd.sub \o <<again>> \o rest, s, pos, caps)
                            ELSE NoMatch
                    stop == IF nd.lo = 0 THEN MatchList(rest, s, pos, caps) ELSE NoMatch
                IN  IF nd.lazy
                    THEN (IF stop.ok THEN stop ELSE more)
                    ELSE (IF more.ok THEN more ELSE stop)
          [] nd.op = "alt" -> MatchAlts(nd.alts, rest, s, pos, caps)
          [] nd.op = "open" ->
                MatchList(rest, s, pos, [caps EXCEPT ![nd.g].o = pos])
          [] nd.op = "close" ->
                MatchList(rest, s, pos,
                          [caps EXCEPT ![nd.g].a = caps[nd.g].o, ![nd.g].b = pos])
          [] nd.op = "wordb" ->
                IF AtWordBoundary(s, pos) THEN MatchList(rest, s, pos, caps) ELSE NoMatch
          [] nd.op = "bos" ->
                IF pos = 1 THEN MatchList(rest, s, pos, caps) ELSE NoMatch
          [] OTHER ->
                IF pos = Len(s) + 1 THEN MatchList(rest, s, pos, caps) ELSE NoMatch
MatchAlts(alts, rest, s, pos, caps) ==
    IF alts = <<>> THEN NoMatch
    ELSE LET m == MatchList(Head(alts) \o rest, s, pos, caps)
         IN  IF m.ok THEN m ELSE MatchAlts(Tail(alts), rest, s, pos, caps)

\* re.match(pattern, s): a match that starts at the first character.
ReMatch(nodes, s) == [MatchList(nodes, s, 1, NoCaps) EXCEPT !.start = 1]

\* The leftmost match that starts at from or later.
SearchFrom(nodes, s, from) ==
    LET starts == {p \in from..(Len(s) + 1) : MatchList(nodes, s, p, NoCaps).ok}
        first == CHOOSE p \in starts : \A r \in starts : p <= r
    IN  IF starts = {} THEN NoMatch
        ELSE [MatchList(nodes, s, first, NoCaps) EXCEPT !.start = first]

\* re.search(pattern, s)
ReSearch(nodes, s) == SearchFrom(nodes, s, 1)

\* m.group(g), and whether it is not None
GroupSet(m, g) == m.caps[g].a # 0
Group(m, s, g) == SubSeq(s, m.caps[g].a, m.caps[g].b - 1)

\* re.split(pattern, s), for a pattern that matches no empty string
RECURSIVE SplitFrom(_, _, _)
SplitFrom(nodes, s, from) ==
    LET m == SearchFrom(nodes, s, from)
    IN  IF ~m.ok THEN <<SubSeq(s, from, Len(s))>>
        ELSE <<SubSeq(s, from, m.start - 1)>> \o SplitFrom(nodes, s, m.end)
ReSplit(nodes, s) == SplitFrom(nodes, s, 1)

\* re.sub(pattern, "", s), for a pattern that matches no empty string
RECURSIVE DeleteFrom(_, _, _)
DeleteFrom(nodes, s, from) ==
    LET m == SearchFrom(nodes, s, from)
    IN  IF ~m.ok THEN SubSeq(s, from, Len(s))
        ELSE SubSeq(s, from, m.start - 1) \o DeleteFrom(nodes, s, m.end)
ReDelete(nodes, s) == DeleteFrom(nodes, s, 1)

(***************************************************************************)
(* The patterns of app.py                                                  *)
(***************************************************************************)
\* app.py:59  \$?\s*([0-9]+(?:[.,][0-9]{3})*(?:\.[0-9]+)?|[0-9]*\.?[0-9]+)\s*([kKmM]?)
ReMoney ==
    <<RRep(<<RLit(<<"$">>)>>, 0, 1, FALSE),
      RRep(<<RSet({" "})>>, 0, Unbounded, FALSE),
      ROpen(1),
      RAlt(<<<<RRep(<<RSet(DigitSet)>>, 1, Unbounded, FALSE),
               RRep(<<RSet({",", "."}), RRep(<<RSet(DigitSet)>>, 3, 3, FALSE)>>, 0, Unbounded, FALSE),
               RRep(<<RLit(<<".">>), RRep(<<RSet(DigitSet)>>, 1, Unbounded, FALSE)>>, 0, 1, FALSE)>>,
             <<RRep(<<RSet(DigitSet)>>, 0, Unbounded, FALSE),
               RRep(<<RLit(<<".">>)>>, 0, 1, FALSE),
               RRep(<<RSet(DigitSet)>>, 1, Unbounded, FALSE)>>>>),
      RClose(1),
      RRep(<<RSet({" "})>>, 0, Unbounded, FALSE),
      ROpen(2),
      RRep(<<RSet({"K", "M", "k", "m"})>>, 0, 1, FALSE),
      RClose(2)>>

\* app.py:72  ([0-9]*\.?[0-9]+)\s*(m|meter|meters|metre|metres|ft|foot|feet)?
ReHeight ==
    <<ROpen(1),
      RRep(<<RSet(DigitSet)>>, 0, Unbounded, FALSE),
      RRep(<<RLitI(<<".">>)>>, 0, 1, FALSE),
      RRep(<<RSet(DigitSet)>>, 1, Unbounded, FALSE),
      RClose(1),
      RRep(<<RSet({" "})>>, 0, Unbounded, FALSE),
      RRep(<<ROpen(2),
             RAlt(<<<<RLitI(<<"m">>)>>,
                    <<RLitI(<<"m", "e", "t", "e", "r">>)>>,
                    <<RLitI(<<"m", "e", "t", "e", "r", "s">>)>>,
                    <<RLitI(<<"m", "e", "t", "r", "e">>)>>,
                    <<RLitI(<<"m", "e", "t", "r", "e", "s">>)>>,
                    <<RLitI(<<"f", "t">>)>>,
                    <<RLitI(<<"f", "o", "o", "t">>)>>,
                    <<RLitI(<<"f", "e", "e", "t">>)>>>>),
             RClose(2)>>, 0, 1, FALSE)>>

\* app.py:82  [^\d]
ReNonDigit ==
    <<RNotSet(DigitSet)>>

\* app.py:207  (?:zoning|zone|district)s?\s+([a-z0-9/\-, ]+)
ReZoning ==
    <<RAlt(<<<<RLit(<<"z", "o", "n", "i", "n", "g">>)>>,
             <<RLit(<<"z", "o", "n", "e">>)>>,
             <<RLit(<<"d", "i", "s", "t", "r", "i", "c", "t">>)>>>>),
      RRep(<<RLit(<<"s">>)>>, 0, 1, FALSE),
      RRep(<<RSet({" "})>>, 1, Unbounded, FALSE),
      ROpen(1),
      RRep(<<RSet(LowerSet \cup DigitSet \cup {" ", ",", "-", "/"})>>, 1, Unbounded, FALSE),
      RClose(1)>>

\* app.py:211  \bin\s+([a-z0-9\-/ ,]+)
ReInRegion ==
    <<RWordB,
      RLit(<<"i", "n">>),
      RRep(<<RSet({" "})>>, 1, Unbounded, FALSE),
      ROpen(1),
      RRep(<<RSet(LowerSet \cup DigitSet \cup {" ", ",", "-", "/"})>>, 1, Unbounded, FALSE),
      RClose(1)>>

\* app.py:212  \bcommunity|neighbou?rhood\b
ReCommunityWord ==
    <<RAlt(<<<<RWordB, RLit(<<"c", "o", "m", "m", "u", "n", "i", "t", "y">>)>>,
             <<RLit(<<"n", "e", "i", "g", "h", "b", "o">>),
               RRep(<<RLit(<<"u">>)>>, 0, 1, FALSE),
               RLit(<<"r", "h", "o", "o", "d">>),
               RWordB>>>>)>>

\* app.py:216  [,\s/]+|(?:\bor\b)|(?:\band\b)
ReZoneSplit ==
    <<RAlt(<<<<RRep(<<RSet({" ", ",", "/"})>>, 1, Unbounded, FALSE)>>,
             <<RWordB, RLit(<<"o", "r">>), RWordB>>,
             <<RWordB, RLit(<<"a", "n", "d">>), RWordB>>>>)>>

\* app.py:220  ^[A-Z]{1,3}(?:-[A-Z0-9]{1,4})+$
ReCodeHyphen ==
    <<RBos,
      RRep(<<RSet(UpperSet)>>, 1, 3, FALSE),
      RRep(<<RLit(<<"-">>), RRep(<<RSet(UpperSet \cup DigitSet)>>, 1, 4, FALSE)>>, 1, Unbounded, FALSE),
      REos>>

\* app.py:220  ^[A-Z]{1,3}\d?$
ReCodeDigit ==
    <<RBos, RRep(<<RSet(UpperSet)>>, 1, 3, FALSE), RRep(<<RSet(DigitSet)>>, 0, 1, FALSE), REos>>

\* app.py:220  ^[A-Z]{1,3}$
ReCodeBare ==
    <<RBos, RRep(<<RSet(UpperSet)>>, 1, 3, FALSE), REos>>

\* app.py:226  (?:less than|under|below)\s+\$?\s*([0-9][\d,\.]*\s*[kKmM]?)
ReLessThan ==
    <<RAlt(<<<<RLit(<<"l", "e", "s", "s", " ", "t", "h", "a", "n">>)>>,
             <<RLit(<<"u", "n", "d", "e", "r">>)>>,
             <<RLit(<<"b", "e", "l", "o", "w">>)>>>>),
      RRep(<<RSet({" "})>>, 1, Unbounded, FALSE),
      RRep(<<RLit(<<"$">>)>>, 0, 1, FALSE),
      RRep(<<RSet({" "})>>, 0, Unbounded, FALSE),
      ROpen(1),
      RSet(DigitSet),
      RRep(<<RSet(DigitSet \cup {",", "."})>>, 0, Unbounded, FALSE),
      RRep(<<RSet({" "})>>, 0, Unbounded, FALSE),
      RRep(<<RSet({"K", "M", "k", "m"})>>, 0, 1, FALSE),
      RClose(1)>>

\* app.py:232  (?:greater than|over|above)\s+\$?\s*([0-9][\d,\.]*\s*[kKmM]?)
ReGreaterThan ==
    <<RAlt(<<<<RLit(<<"g", "r", "e", "a", "t", "e", "r", " ", "t", "h", "a", "n">>)>>,
             <<RLit(<<"o", "v", "e", "r">>)>>,
             <<RLit(<<"a", "b", "o", "v", "e">>)>>>>),
      RRep(<<RSet({" "})>>, 1, Unbounded, FALSE),
      RRep(<<RLit(<<"$">>)>>, 0, 1, FALSE),
      RRep(<<RSet({" "})>>, 0, Unbounded, FALSE),
      ROpen(1),
      RSet(DigitSet),
      RRep(<<RSet(DigitSet \cup {",", "."})>>, 0, Unbounded, FALSE),
      RRep(<<RSet({" "})>>, 0, Unbounded, FALSE),
      RRep(<<RSet({"K", "M", "k", "m"})>>, 0, 1, FALSE),
      RClose(1)>>

\* app.py:238  between\s+\$?\s*([0-9][\d,\.]*\s*[kKmM]?)\s+and\s+\$?\s*([0-9][\d,\.]*\s*[kKmM]?)
ReBetween ==
    <<RLit(<<"b", "e", "t", "w", "e", "e", "n">>),
      RRep(<<RSet({" "})>>, 1, Unbounded, FALSE),
      RRep(<<RLit(<<"$">>)>>, 0, 1, FALSE),
      RRep(<<RSet({" "})>>, 0, Unbounded, FALSE),
      ROpen(1),
      RSet(DigitSet),
      RRep(<<RSet(DigitSet \cup {",", "."})>>, 0, Unbounded, FALSE),
      RRep(<<RSet({" "})>>, 0, Unbounded, FALSE),
      RRep(<<RSet({"K", "M", "k", "m"})>>, 0, 1, FALSE),
      RClose(1),
      RRep(<<RSet({" "})>>, 1, Unbounded, FALSE),
      RLit(<<"a", "n", "d">>),
      RRep(<<RSet({" "})>>, 1, Unbounded, FALSE),
      RRep(<<RLit(<<"$">>)>>, 0, 1, FALSE),
      RRep(<<RSet({" "})>>, 0, Unbounded, FALSE),
      ROpen(2),
      RSet(DigitSet),
      RRep(<<RSet(DigitSet \cup {",", "."})>>, 0, Unbounded, FALSE),
      RRep(<<RSet({" "})>>, 0, Unbounded, FALSE),
      RRep(<<RSet({"K", "M", "k", "m"})>>, 0, 1, FALSE),
      RClose(2)>>

\* app.py:248  (?:over|greater than|above)\s+([0-9\.]+)\s*(ft|feet|foot|m|meter|metre|meters|metres)\b
ReHeightOver ==
    <<RAlt(<<<<RLit(<<"o", "v", "e", "r">>)>>,
             <<RLit(<<"g", "r", "e", "a", "t", "e", "r", " ", "t", "h", "a", "n">>)>>,
             <<RLit(<<"a", "b", "o", "v", "e">>)>>>>),
      RRep(<<RSet({" "})>>, 1, Unbounded, FALSE),
      ROpen(1),
      RRep(<<RSet(DigitSet \cup {"."})>>, 1, Unbounded, FALSE),
      RClose(1),
      RRep(<<RSet({" "})>>, 0, Unbounded, FALSE),
      ROpen(2),
      RAlt(<<<<RLit(<<"f", "t">>)>>,
             <<RLit(<<"f", "e", "e", "t">>)>>,
             <<RLit(<<"f", "o", "o", "t">>)>>,
             <<RLit(<<"m">>)>>,
             <<RLit(<<"m", "e", "t", "e", "r">>)>>,
             <<RLit(<<"m", "e", "t", "r", "e">>)>>,
             <<RLit(<<"m", "e", "t", "e", "r", "s">>)>>,
             <<RLit(<<"m", "e", "t", "r", "e", "s">>)>>>>),
      RClose(2),
      RWordB>>

\* app.py:253  (?:under|less than|below)\s+([0-9\.]+)\s*(ft|feet|foot|m|meter|metre|meters|metres)\b
ReHeightUnder ==
    <<RAlt(<<<<RLit(<<"u", "n", "d", "e", "r">>)>>,
             <<RLit(<<"l", "e", "s", "s", " ", "t", "h", "a", "n">>)>>,
             <<RLit(<<"b", "e", "l", "o", "w">>)>>>>),
      RRep(<<RSet({" "})>>, 1, Unbounded, FALSE),
      ROpen(1),
      RRep(<<RSet(DigitSet \cup {"."})>>, 1, Unbounded, FALSE),
      RClose(1),
      RRep(<<RSet({" "})>>, 0, Unbounded, FALSE),
      ROpen(2),
      RAlt(<<<<RLit(<<"f", "t">>)>>,
             <<RLit(<<"f", "e", "e", "t">>)>>,
             <<RLit(<<"f", "o", "o", "t">>)>>,
             <<RLit(<<"m">>)>>,
             <<RLit(<<"m", "e", "t", "e", "r">>)>>,
             <<RLit(<<"m", "e", "t", "r", "e">>)>>,
             <<RLit(<<"m", "e", "t", "e", "r", "s">>)>>,
             <<RLit(<<"m", "e", "t", "r", "e", "s">>)>>>>),
      RClose(2),
      RWordB>>

\* app.py:258  (?:over|greater than|above)\s+([0-9]+)\s*(?:floors?|storeys?|stories?)
ReFloorsOver ==
    <<RAlt(<<<<RLit(<<"o", "v", "e", "r">>)>>,
             <<RLit(<<"g", "r", "e", "a", "t", "e", "r", " ", "t", "h", "a", "n">>)>>,
             <<RLit(<<"a", "b", "o", "v", "e">>)>>>>),
      RRep(<<RSet({" "})>>, 1, Unbounded, FALSE),
      ROpen(1),
      RRep(<<RSet(DigitSet)>>, 1, Unbounded, FALSE),
      RClose(1),
      RRep(<<RSet({" "})>>, 0, Unbounded, FALSE),
      RAlt(<<<<RLit(<<"f", "l", "o", "o", "r">>), RRep(<<RLit(<<"s">>)>>, 0, 1, FALSE)>>,
             <<RLit(<<"s", "t", "o", "r", "e", "y">>), RRep(<<RLit(<<"s">>)>>, 0, 1, FALSE)>>,
             <<RLit(<<"s", "t", "o", "r", "i", "e">>), RRep(<<RLit(<<"s">>)>>, 0, 1, FALSE)>>>>)>>

\* app.py:263  (?:under|less than|below)\s+([0-9]+)\s*(?:floors?|storeys?|stories?)
ReFloorsUnder ==
    <<RAlt(<<<<RLit(<<"u", "n", "d", "e", "r">>)>>,
             <<RLit(<<"l", "e", "s", "s", " ", "t", "h", "a", "n">>)>>,
             <<RLit(<<"b", "e", "l", "o", "w">>)>>>>),
      RRep(<<RSet({" "})>>, 1, Unbounded, FALSE),
      ROpen(1),
      RRep(<<RSet(DigitSet)>>, 1, Unbounded, FALSE),
      RClose(1),
      RRep(<<RSet({" "})>>, 0, Unbounded, FALSE),
      RAlt(<<<<RLit(<<"f", "l", "o", "o", "r">>), RRep(<<RLit(<<"s">>)>>, 0, 1, FALSE)>>,
             <<RLit(<<"s", "t", "o", "r", "e", "y">>), RRep(<<RLit(<<"s">>)>>, 0, 1, FALSE)>>,
             <<RLit(<<"s", "t", "o", "r", "i", "e">>), RRep(<<RLit(<<"s">>)>>, 0, 1, FALSE)>>>>)>>

\* app.py:270  (?:built|year)\s+(?:after|since)\s+([12][0-9]{3})
ReYearAfter ==
    <<RAlt(<<<<RLit(<<"b", "u", "i", "l", "t">>)>>, <<RLit(<<"y", "e", "a", "r">>)>>>>),
      RRep(<<RSet({" "})>>, 1, Unbounded, FALSE),
      RAlt(<<<<RLit(<<"a", "f", "t", "e", "r">>)>>, <<RLit(<<"s", "i", "n", "c", "e">>)>>>>),
      RRep(<<RSet({" "})>>, 1, Unbounded, FALSE),
      ROpen(1),
      RSet({"1", "2"}),
      RRep(<<RSet(DigitSet)>>, 3, 3, FALSE),
      RClose(1)>>

\* app.py:273  (?:built|year)\s+(?:before|until|prior to)\s+([12][0-9]{3})
ReYearBefore ==
    <<RAlt(<<<<RLit(<<"b", "u", "i", "l", "t">>)>>, <<RLit(<<"y", "e", "a", "r">>)>>>>),
      RRep(<<RSet({" "})>>, 1, Unbounded, FALSE),
      RAlt(<<<<RLit(<<"b", "e", "f", "o", "r", "e">>)>>,
             <<RLit(<<"u", "n", "t", "i", "l">>)>>,
             <<RLit(<<"p", "r", "i", "o", "r", " ", "t", "o">>)>>>>),
      RRep(<<RSet({" "})>>, 1, Unbounded, FALSE),
      ROpen(1),
      RSet({"1", "2"}),
      RRep(<<RSet(DigitSet)>>, 3, 3, FALSE),
      RClose(1)>>

\* app.py:278  in\s+([a-z][a-z \-']+?)\s+(?:community|neighbou?rhood)\b
ReCommunity ==
    <<RLit(<<"i", "n">>),
      RRep(<<RSet({" "})>>, 1, Unbounded, FALSE),
      ROpen(1),
      RSet(LowerSet),
      RRep(<<RSet(LowerSet \cup {" ", "'", "-"})>>, 1, Unbounded, TRUE),
      RClose(1),
      RRep(<<RSet({" "})>>, 1, Unbounded, FALSE),
      RAlt(<<<<RLit(<<"c", "o", "m", "m", "u", "n", "i", "t", "y">>)>>,
             <<RLit(<<"n", "e", "i", "g", "h", "b", "o">>),
               RRep(<<RLit(<<"u">>)>>, 0, 1, FALSE),
               RLit(<<"r", "h", "o", "o", "d">>)>>>>),
      RWordB>>

(***************************************************************************)
(* The Query Parser                                                        *)
(***************************************************************************)
\* What a helper returns: a float, None (none = TRUE), or an exception that
\* leaves it (raised = TRUE).
Parsed(x, f) == [raised |-> FALSE, none |-> FALSE, x |-> x, f |-> f]
ParsedNone == [raised |-> FALSE, none |-> TRUE, x |-> 0, f |-> 0]
ParseRaised == [raised |-> TRUE, none |-> FALSE, x |-> 0, f |-> 0]

\* n * 10 ** k for a float n
RECURSIVE TimesPowerOfTen(_, _)
TimesPowerOfTen(r, k) ==
    IF k = 0 THEN r
    ELSE TimesPowerOfTen([r EXCEPT !.x = r.x * 10 + (r.f * 10) \div UlpsPerUnit,
                                   !.f = (r.f * 10) % UlpsPerUnit], k - 1)

\* val * 0.3048
FeetToMetres(r) ==
    LET whole == r.x * 3048
        part == (r.f \div 10000) * 3048 + ((r.f % 10000) * 3048) \div 10000
        ulps == (whole % 10000) * (UlpsPerUnit \div 10000) + part
    IN  [r EXCEPT !.x = whole \div 10000 + ulps \div UlpsPerUnit,
                  !.f = ulps % UlpsPerUnit]

\* A local variable: body applied to the value assigned to it.
With(v, body(_)) == body(v)

\* _parse_money(txt): float() of the matched digits is not guarded.
ParseMoney(txt) ==
    With(StrStrip(txt), LAMBDA t :
    With(ReMatch(ReMoney, t), LAMBDA m :
        IF ~m.ok THEN ParsedNone
        ELSE
        With(FloatOfStr(StrReplace(Group(m, t, 1), ",", <<>>)), LAMBDA n :
        With(StrLower(Group(m, t, 2)), LAMBDA s :
            IF ~n.ok THEN ParseRaised
            ELSE IF s = <<"k">> THEN TimesPowerOfTen(Parsed(n.x, n.f), 3)
            ELSE IF s = <<"m">> THEN TimesPowerOfTen(Parsed(n.x, n.f), 6)
            ELSE Parsed(n.x, n.f)))))

\* FootUnits without the spelled-out units.
FootUnitsAbbreviated == {<<"f","t">>}

FootUnits == {<<"f","t">>, <<"f","o","o","t">>, <<"f","e","e","t">>}

\* _parse_height_to_m(txt)
ParseHeightToM(txt) ==
    With(StrStrip(txt), LAMBDA t :
    With(ReMatch(ReHeight, t), LAMBDA m :
        IF ~m.ok THEN ParsedNone
        ELSE
        With(FloatOfStr(Group(m, t, 1)), LAMBDA val :
        With(StrLower(IF GroupSet(m, 2) /\ Group(m, t, 2) # <<>>
                      THEN Group(m, t, 2) ELSE <<"m">>), LAMBDA unit :
            IF ~val.ok THEN ParseRaised
            ELSE IF unit \in FootUnits THEN FeetToMetres(Parsed(val.x, val.f))
            ELSE Parsed(val.x, val.f)))))

\* _parse_int(txt): None when int() raises.
ParseInt(txt) ==
    With(IntOfStr(ReDelete(ReNonDigit, txt)), LAMBDA n :
        IF n.ok THEN Parsed(n.x, 0) ELSE ParsedNone)

\* str.title(): a letter that follows no letter is upper case, the others lower.
Title(cs) ==
    [k \in 1..Len(cs) |->
        IF k = 1 \/ ~(IsLower(cs[k - 1]) \/ IsUpper(cs[k - 1]))
        THEN UpperChar(cs[k]) ELSE LowerChar(cs[k])]

\* What one section of the parser adds: clauses, or an exception.
Adds(out) == [raised |-> FALSE, out |-> out]
SectionRaised == [raised |-> TRUE, out |-> <<>>]

\* ZoningBlock with the fallback taken whatever else the query mentions.
ZoningBlockUnsuppressed(qq) ==
    With(ReSearch(ReZoning, qq), LAMBDA m :
    With(IF m.ok THEN Group(m, qq, 1) ELSE <<>>, LAMBDA zblock :
        IF zblock # <<>> THEN zblock
        ELSE
        With(ReSearch(ReInRegion, qq), LAMBDA m2 :
            IF m2.ok THEN Group(m2, qq, 1) ELSE <<>>)))

\* The block of text the zoning codes are read from; <<>> is no block.
ZoningBlock(qq) ==
    With(ReSearch(ReZoning, qq), LAMBDA m :
    With(IF m.ok THEN Group(m, qq, 1) ELSE <<>>, LAMBDA zblock :
        IF zblock # <<>> THEN zblock
        ELSE
        With(ReSearch(ReInRegion, qq), LAMBDA m2 :
            IF m2.ok /\ ~ReSearch(ReCommunityWord, qq).ok THEN Group(m2, qq, 1)
            ELSE <<>>)))

IsZoningCode(t) ==
    \/ ReMatch(ReCodeHyphen, t).ok
    \/ ReMatch(ReCodeDigit, t).ok
    \/ ReMatch(ReCodeBare, t).ok

RECURSIVE ZoningCodes(_)
ZoningCodes(toks) ==
    IF toks = <<>> THEN <<>>
    ELSE With(StrUpper(StrStrip(Head(toks))), LAMBDA t :
            (IF t # <<>> /\ IsZoningCode(t) THEN <<PyStr(t)>> ELSE <<>>)
                \o ZoningCodes(Tail(toks)))

ZoningSection(qq) ==
    With(ZoningBlock(qq), LAMBDA zblock :
    With(IF zblock = <<>> THEN <<>> ELSE ZoningCodes(ReSplit(ReZoneSplit, zblock)),
         LAMBDA codes :
        Adds(IF codes # <<>> THEN <<Clause("zoning", "in", PyList(codes))>> ELSE <<>>)))

\* One assessed_value clause from the amount after a comparative phrase.
MoneySection(pattern, op, qq) ==
    With(ReSearch(pattern, qq), LAMBDA m :
        IF ~m.ok THEN Adds(<<>>)
        ELSE
        With(ParseMoney(Group(m, qq, 1)), LAMBDA n :
            IF n.raised THEN SectionRaised
            ELSE IF n.none THEN Adds(<<>>)
            ELSE Adds(<<Clause("assessed_value", op, PyFloat(n.x, n.f))>>)))

\* "between X and Y": lo, hi = sorted([n1, n2])
BetweenSection(qq) ==
    With(ReSearch(ReBetween, qq), LAMBDA m :
        IF ~m.ok THEN Adds(<<>>)
        ELSE
        With(ParseMoney(Group(m, qq, 1)), LAMBDA n1 :
            IF n1.raised THEN SectionRaised
            ELSE
            With(ParseMoney(Group(m, qq, 2)), LAMBDA n2 :
                IF n2.raised THEN SectionRaised
                ELSE IF n1.none \/ n2.none THEN Adds(<<>>)
                ELSE
                With(n2.x < n1.x \/ (n2.x = n1.x /\ n2.f < n1.f), LAMBDA swap :
                With(IF swap THEN n2 ELSE n1, LAMBDA lo :
                With(IF swap THEN n1 ELSE n2, LAMBDA hi :
                    Adds(<<Clause("assessed_value", ">", PyFloat(lo.x, lo.f)),
                           Clause("assessed_value", "<", PyFloat(hi.x, hi.f))>>)))))))

\* One height_m clause from "N <unit>" after a comparative phrase.
HeightSection(pattern, op, qq) ==
    With(ReSearch(pattern, qq), LAMBDA m :
        IF ~m.ok THEN Adds(<<>>)
        ELSE
        With(ParseHeightToM(Group(m, qq, 1) \o <<" ">> \o Group(m, qq, 2)), LAMBDA h :
            IF h.raised THEN SectionRaised
            ELSE IF h.none THEN Adds(<<>>)
            ELSE Adds(<<Clause("height_m", op, PyFloat(h.x, h.f))>>)))

\* One height_m clause from a number of floors: fl * 3.0
FloorsSection(pattern, op, qq) ==
    With(ReSearch(pattern, qq), LAMBDA m :
        IF ~m.ok THEN Adds(<<>>)
        ELSE
        With(ParseInt(Group(m, qq, 1)), LAMBDA fl :
            IF fl.none THEN Adds(<<>>)
            ELSE Adds(<<Clause("height_m", op, PyFloat(fl.x * 3, 0))>>)))

YearSection(pattern, op, qq) ==
    With(ReSearch(pattern, qq), LAMBDA m :
        IF ~m.ok THEN Adds(<<>>)
        ELSE
        With(IntOfStr(Group(m, qq, 1)), LAMBDA y :
            IF ~y.ok THEN SectionRaised
            ELSE Adds(<<Clause("year", op, PyInt(y.x))>>)))

CommunitySection(qq) ==
    With(ReSearch(ReCommunity, qq), LAMBDA m :
        IF ~m.ok THEN Adds(<<>>)
        ELSE
        With(StrStrip(Group(m, qq, 1)), LAMBDA name :
            IF name # <<>>
            THEN Adds(<<Clause("community", "=", PyStr(Title(name)))>>)
            ELSE Adds(<<>>)))

\* Sections with the height patterns ahead of the assessed-value patterns.
SectionsHeightFirst(qq) ==
    << ZoningSection(qq),
       HeightSection(ReHeightOver, ">", qq),
       HeightSection(ReHeightUnder, "<", qq),
       MoneySection(ReLessThan, "<", qq),
       MoneySection(ReGreaterThan, ">", qq),
       BetweenSection(qq),
       FloorsSection(ReFloorsOver, ">", qq),
       FloorsSection(ReFloorsUnder, "<", qq),
       YearSection(ReYearAfter, ">", qq),
       YearSection(ReYearBefore, "<", qq),
       CommunitySection(qq) >>

\* The sections of _parse_text_to_filters in the order the code runs them.
Sections(qq) ==
    << ZoningSection(qq),
       MoneySection(ReLessThan, "<", qq),
       MoneySection(ReGreaterThan, ">", qq),
       BetweenSection(qq),
       HeightSection(ReHeightOver, ">", qq),
       HeightSection(ReHeightUnder, "<", qq),
       FloorsSection(ReFloorsOver, ">", qq),
       FloorsSection(ReFloorsUnder, "<", qq),
       YearSection(ReYearAfter, ">", qq),
       YearSection(ReYearBefore, "<", qq),
       CommunitySection(qq) >>

RECURSIVE Gather(_)
Gather(secs) == IF secs = <<>> THEN <<>> ELSE Head(secs).out \o Gather(Tail(secs))

\* _parse_text_to_filters(q): the clauses, or raised = TRUE when an exception
\* leaves the function.
ParseTextToFilters(q) ==
    With(StrLower(StrStrip(q)), LAMBDA qq :
        IF qq = <<>> THEN [raised |-> FALSE, filters |-> <<>>]
        ELSE
        With(Sections(qq), LAMBDA secs :
            IF \E k \in 1..Len(secs) : secs[k].raised
            THEN [raised |-> TRUE, filters |-> <<>>]
            ELSE [raised |-> FALSE, filters |-> Gather(secs)]))

\* What the exchange with the remote model gives.  status = "raise": an
\* exception out of requests.post, raise_for_status or resp.json (network
\* error, timeout, HTTP error, a body that is not JSON).  Otherwise the
\* decoded body: kind = "generated" is a non-empty list whose first item
\* holds generated_text, kind = "scalars" a list whose first item the `in`
\* test raises TypeError on, kind = "other" any other value, whose
\* json.dumps is searched instead.  out describes the searched text:
\* braces, whether \{[\s\S]*\} finds a span in it; valid, whether json.loads
\* accepts the span; filters, what data.get("filters") then gives.
NoReply == [status |-> "none"]
RemoteRaises == [status |-> "raise"]
SearchedText(braces, valid, flt) == [braces |-> braces, valid |-> valid, filters |-> flt]
RemoteBody(kind, out) == [status |-> "ok", kind |-> kind, out |-> out]

\* What the try block comes to: the remote list, the fallback to the
\* deterministic parser (`return _parse_text_to_filters(q)`, also from the
\* except branch), or an exception that would leave it.
RemoteList(l) == [way |-> "list", filters |-> l]
Fallback == [way |-> "fallback", filters |-> <<>>]
Escapes == [way |-> "raise", filters |-> <<>>]

\* The try block without its except branch, taking whatever "filters" holds.
RemoteAttemptUnguarded ==
    IF reply.status = "raise" \/ reply.kind = "scalars" THEN Escapes
    ELSE IF ~reply.out.braces THEN Fallback
    ELSE IF ~reply.out.valid THEN Escapes
    ELSE RemoteList(reply.out.filters.l)

\* The try block of _maybe_huggingface_parse: reply is what the remote
\* exchange gives.
RemoteAttempt ==
    IF reply.status = "raise" \/ reply.kind = "scalars" THEN Fallback
    ELSE IF ~reply.out.braces THEN Fallback
    ELSE IF ~reply.out.valid THEN Fallback
    ELSE IF reply.out.filters.t = "list" THEN RemoteList(reply.out.filters.l)
    ELSE Fallback

\* _maybe_huggingface_parse(q): key and model are the two environment
\* variables.
MaybeHuggingfaceParse(q) ==
    With(IF ~Truthy(key) \/ ~Truthy(model) THEN Fallback ELSE RemoteAttempt, LAMBDA r :
        IF r.way = "fallback" THEN ParseTextToFilters(q)
        ELSE [raised |-> r.way = "raise", filters |-> r.filters])

(***************************************************************************)
(* Queries                                                                 *)
(***************************************************************************)
\* A comparative phrase followed by an amount, and whole queries.
Comparatives == {<<"u","n","d","e","r">>, <<"o","v","e","r">>, <<"l","e","s","s"," ","t","h","a","n">>, <<"A","b","o","v","e">>}

Amounts ==
    { <<"5","0","0">>, <<"5","0","0",".","0","0","0">>, <<"5","0","0",",","0","0","0">>, <<"1",".","2","3","4",".","5","6","7">>, <<"1",",","2","3","4",",","5","6","7",".","5">>, <<"$","2",".","5","m">>,
      <<"3","0","0","K">>, <<"1",".","2","3","4",".","5">>, <<"5"," ","m">>, <<"1","0","0"," ","f","e","e","t">>, <<"3"," ","f","l","o","o","r","s">>, <<"1","2","f","t">>,
      <<"7",".","5",".","1"," ","m","e","t","r","e","s">>, <<"2"," ","s","t","o","r","e","y","s">> }

WholeQueries ==
    { <<>>, <<" "," "," ">>,
      <<"b","e","t","w","e","e","n"," ","$","4","0","0","k"," ","a","n","d"," ","$","6","0","0","k">>,
      <<"b","e","t","w","e","e","n"," ","6","0","0","k"," ","a","n","d"," ","4","0","0","k">>,
      <<"b","e","t","w","e","e","n"," ","1",".","0","0","0",".","0","0","0"," ","a","n","d"," ","2","m">>,
      <<"b","u","i","l","d","i","n","g","s"," ","o","v","e","r"," ","1","0","0"," ","f","e","e","t">>,
      <<"i","n"," ","b","e","l","t","l","i","n","e"," ","c","o","m","m","u","n","i","t","y">>,
      <<"i","n"," ","o","'","b","r","i","e","n"," ","p","a","r","k"," ","n","e","i","g","h","b","o","r","h","o","o","d"," ","u","n","d","e","r"," ","1","m">>,
      <<"z","o","n","i","n","g"," ","r","c","-","g">>,
      <<"z","o","n","e","s"," ","r","c","-","g",","," ","m","-","c","1"," ","a","n","d"," ","t","o","o","l","o","n","g","c","o","d","e">>,
      <<"i","n"," ","m","-","c","1"," ","o","r"," ","d","c">>,
      <<"b","u","i","l","t"," ","a","f","t","e","r"," ","2","0","0","0">>,
      <<"y","e","a","r"," ","p","r","i","o","r"," ","t","o"," ","1","9","9","0">>,
      <<" ","Z","o","n","i","n","g"," ","R","C","-","G"," ","u","n","d","e","r"," ","$","5","0","0","k"," ","b","u","i","l","t"," ","s","i","n","c","e"," ","2","0","0","0"," ">>,
      <<"s","h","o","w"," ","m","e"," ","e","v","e","r","y","t","h","i","n","g">> }

Queries == {c \o <<" ">> \o a : c \in Comparatives, a \in Amounts} \cup WholeQueries

\* A money amount as the specification writes it: an optional "$", a leading
\* digit group, three-digit groups each behind the separator sep, an optional
\* decimal tail behind a dot, and an optional suffix.
Amount(dollar, lead, groups, sep, tail, suffix) ==
    [dollar |-> dollar, lead |-> lead, groups |-> groups, sep |-> sep,
     tail |-> tail, suffix |-> suffix]

RECURSIVE GroupsText(_, _)
GroupsText(groups, sep) ==
    IF groups = <<>> THEN <<>>
    ELSE <<sep>> \o Head(groups) \o GroupsText(Tail(groups), sep)

\* The text of the amount a.
AmountText(a) ==
    (IF a.dollar THEN <<"$">> ELSE <<>>) \o a.lead \o GroupsText(a.groups, a.sep)
        \o (IF a.tail = <<>> THEN <<>> ELSE <<".">> \o a.tail) \o a.suffix

\* Amounts small enough for the suffix to be applied in 32-bit arithmetic.
MoneyAmounts ==
    {a \in [dollar : BOOLEAN,
            lead : {<<"5">>, <<"1","2">>},
            groups : {<<>>, <<<<"0","0","0">>>>, <<<<"2","3","4">>, <<"0","0","0">>>>},
            sep : {",", "."},
            tail : {<<>>, <<"5">>},
            suffix : {<<>>, <<"k">>, <<"M">>}] :
        /\ a.groups = <<>> => a.sep = ","
        /\ a.suffix = <<"k">> => Len(a.groups) <= 1
        /\ a.suffix = <<"M">> => a.groups = <<>>}

MoneyQueries ==
    {c \o <<" ">> \o AmountText(a) : c \in {<<"u","n","d","e","r">>, <<"o","v","e","r">>}, a \in MoneyAmounts}

\* The amounts of the range queries.
RangeAmounts ==
    { Amount(TRUE, <<"4","0","0">>, <<>>, ",", <<>>, <<"k">>),
      Amount(TRUE, <<"6","0","0">>, <<>>, ",", <<>>, <<"k">>),
      Amount(FALSE, <<"5","0","0">>, <<<<"0","0","0">>>>, ",", <<>>, <<>>),
      Amount(FALSE, <<"5","0","0">>, <<<<"0","0","0">>>>, ".", <<>>, <<>>),
      Amount(FALSE, <<"2">>, <<<<"0","0","0">>>>, ",", <<>>, <<>>),
      Amount(TRUE, <<"1">>, <<>>, ",", <<"5">>, <<"m">>) }

RangeText(x, y) == <<"b","e","t","w","e","e","n"," ">> \o AmountText(x) \o <<" ","a","n","d"," ">> \o AmountText(y)

RangeQueries == {RangeText(x, y) : x, y \in RangeAmounts}

\* The features the parsed expression is applied to.
\* The comparative phrases of the height patterns, by operator.
OverWords == {<<"o","v","e","r">>, <<"g","r","e","a","t","e","r"," ","t","h","a","n">>, <<"a","b","o","v","e">>}
UnderWords == {<<"u","n","d","e","r">>, <<"l","e","s","s"," ","t","h","a","n">>, <<"b","e","l","o","w">>}

FeetWords == {<<"f","t">>, <<"f","e","e","t">>, <<"f","o","o","t">>}
MetreWords == {<<"m">>, <<"m","e","t","e","r">>, <<"m","e","t","e","r","s">>, <<"m","e","t","r","e">>, <<"m","e","t","r","e","s">>}

\* The numbers of the height queries.
HeightNumbers == {<<"1","0","0">>, <<".","5">>, <<"7",".","2","5">>}

\* "<word> N<gap><unit>", with and without a blank before the unit.
HeightText(word, n, gap, unit) == word \o <<" ">> \o n \o gap \o unit

HeightQueries ==
    {HeightText(word, n, gap, unit) :
        word \in OverWords \cup UnderWords, n \in HeightNumbers,
        gap \in {<<>>, <<" ">>}, unit \in FeetWords \cup MetreWords}
    \cup {<<"b","u","i","l","d","i","n","g","s"," ","o","v","e","r"," ","1","0","0"," ","f","e","e","t">>, <<"T","o","w","e","r","s"," ","B","E","L","O","W"," ","7",".","2","5"," ","M","e","t","r","e","s"," ","t","a","l","l">>}

\* The parts of the zoning queries: a keyword with its run of codes, an
\* "in <region>" phrase, and a phrase with a community word.  codes and name
\* are what the part says; text = <<>> is the part left out.
KeywordPart(text, codes) == [text |-> text, codes |-> codes]
RegionPart(text, codes) == [text |-> text, codes |-> codes]
CommunityPart(text, name, mention) == [text |-> text, name |-> name, mention |-> mention]

KeywordParts ==
    { KeywordPart(<<>>, <<>>),
      KeywordPart(<<"z","o","n","i","n","g"," ","r","c","-","g">>, <<<<"R","C","-","G">>>>),
      KeywordPart(<<"d","i","s","t","r","i","c","t","s"," ","m","-","c","1",","," ","d","c">>, <<<<"M","-","C","1">>, <<"D","C">>>>),
      KeywordPart(<<"z","o","n","e"," ","1","2","3","4","5">>, <<>>) }

RegionParts ==
    { RegionPart(<<>>, <<>>),
      RegionPart(<<"i","n"," ","r","-","c","1">>, <<<<"R","-","C","1">>>>),
      RegionPart(<<"i","n"," ","d","c"," ","o","r"," ","m","-","c","1">>, <<<<"D","C">>, <<"M","-","C","1">>>>) }

CommunityWords == {<<"c","o","m","m","u","n","i","t","y">>, <<"n","e","i","g","h","b","o","u","r","h","o","o","d">>, <<"n","e","i","g","h","b","o","r","h","o","o","d">>}

CommunityParts ==
    { CommunityPart(<<>>, <<>>, FALSE), CommunityPart(<<"n","e","a","r"," ","a"," ","c","o","m","m","u","n","i","t","y">>, <<>>, TRUE) }
    \cup { CommunityPart(<<"i","n"," ">> \o n[1] \o <<" ">> \o w, n[2], TRUE) :
             n \in { <<<<"b","e","l","t","l","i","n","e">>, <<"B","e","l","t","l","i","n","e">>>>, <<<<"o","'","b","r","i","e","n"," ","p","a","r","k">>, <<"O","'","B","r","i","e","n"," ","P","a","r","k">>>>,
                     <<<<"d","c">>, <<"D","c">>>> },
             w \in CommunityWords }

RECURSIVE JoinParts(_)
JoinParts(parts) ==
    IF parts = <<>> THEN <<>>
    ELSE IF Head(parts) = <<>> THEN JoinParts(Tail(parts))
    ELSE IF JoinParts(Tail(parts)) = <<>> THEN Head(parts)
    ELSE Head(parts) \o <<";"," ">> \o JoinParts(Tail(parts))

\* The parts in the order keyword, region, community, or the reverse.
ZoneQuery(k, r, c, rev) ==
    JoinParts(IF rev THEN <<c.text, r.text, k.text>> ELSE <<k.text, r.text, c.text>>)

ZoneQueries ==
    ({ZoneQuery(k, r, c, rev) :
        k \in KeywordParts, r \in RegionParts, c \in CommunityParts, rev \in BOOLEAN}
     \cup {<<"I","n"," ","B","e","l","t","l","i","n","e"," ","C","o","m","m","u","n","i","t","y">>}) \ {<<>>}

\* The settings of HUGGINGFACE_API_KEY and HUGGINGFACE_MODEL: unset, empty, set.
EnvValues == {PyNone, PyStr(<<>>), PyStr(<<"h","f">>)}

\* What the remote model may answer.
RemoteLists == {<<>>, <<cYearEq>>, <<cZoneRC, cValueLt>>}
RemoteReplies ==
    { RemoteRaises,
      RemoteBody("scalars", SearchedText(FALSE, FALSE, PyNone)),
      RemoteBody("other", SearchedText(FALSE, FALSE, PyNone)),
      RemoteBody("generated", SearchedText(FALSE, FALSE, PyNone)),
      RemoteBody("generated", SearchedText(TRUE, FALSE, PyNone)),
      RemoteBody("generated", SearchedText(TRUE, TRUE, PyNone)),
      RemoteBody("generated", SearchedText(TRUE, TRUE, PyStr(<<"n","o","n","e">>))),
      RemoteBody("other", SearchedText(TRUE, TRUE, PyInt(0))) }
    \cup { RemoteBody(kind, SearchedText(TRUE, TRUE, PyList(l))) :
             kind \in {"generated", "other"}, l \in RemoteLists }

RemoteQueries ==
    { <<"z","o","n","i","n","g"," ","r","c","-","g"," ","b","u","i","l","t"," ","a","f","t","e","r"," ","2","0","0","0">>, <<" ","O","v","e","r"," ","5"," ","m"," ">>, <<"i","n"," ","b","e","l","t","l","i","n","e"," ","c","o","m","m","u","n","i","t","y">>,
      <<"o","v","e","r"," ","1",".","2","3","4",".","5">>, <<"n","o","t","h","i","n","g"," ","t","o"," ","f","i","n","d">> }

\* The arguments of the store's calls.
Usernames == {<<>>, <<"a","n","n">>, <<"b","o","b">>}
ProjectNames == {<<>>, <<"a">>, <<"A">>}
SavedFilters == {PyNone, PyList(<<Clause("year", ">", PyInt(2000)), cZoneRC>>)}
SavedBboxes == {<<PyInt(1), PyFloat(2, Half), PyInt(3), PyInt(4)>>}
SavedArguments ==
    { [query |-> PyNone, filters |-> PyNone, limit |-> PyInt(50)],
      [query |-> PyStr(<<"o","v","e","r"," ","5"," ","m">>), filters |-> PyNone, limit |-> PyInt(1200)],
      [query |-> PyStr(<<"o","v","e","r"," ","5"," ","m">>),
       filters |-> PyList(<<Clause("year", ">", PyInt(2000)), cZoneRC>>), limit |-> PyInt(50)] }

\* The words of the floor-count patterns.
FloorWords == {<<"f","l","o","o","r">>, <<"f","l","o","o","r","s">>, <<"s","t","o","r","e","y","s">>, <<"s","t","o","r","i","e","s">>}

\* The units of the phrase queries: feet, the metre family, floors.
PhraseUnits == {<<"f","t">>, <<"f","e","e","t">>, <<"m">>, <<"m","e","t","e","r">>, <<"m","e","t","r","e","s">>} \cup FloorWords

\* A query of several phrases, one per pattern, and its rotations in both
\* directions.
PhraseParts ==
    << <<"z","o","n","i","n","g"," ","r","c","-","g">>, <<"u","n","d","e","r"," ","1","0","0"," ","f","e","e","t">>, <<"o","v","e","r"," ","3"," ","f","l","o","o","r","s">>, <<"b","e","t","w","e","e","n"," ","$","4","0","0","k"," ","a","n","d"," ","$","6","0","0","k">>,
       <<"b","u","i","l","t"," ","b","e","f","o","r","e"," ","1","9","9","9">>, <<"i","n"," ","b","e","l","t","l","i","n","e"," ","c","o","m","m","u","n","i","t","y">> >>
Rotated(parts, r) == [k \in 1..Len(parts) |-> parts[((k + r - 1) % Len(parts)) + 1]]
Reversed(parts) == [k \in 1..Len(parts) |-> parts[Len(parts) + 1 - k]]
OrderQueries ==
    {JoinParts(Rotated(PhraseParts, r)) : r \in 0..5}
        \cup {JoinParts(Reversed(Rotated(PhraseParts, r))) : r \in 0..5}

PhraseQueries ==
    {HeightText(word, n, <<" ">>, unit) :
        word \in OverWords \cup UnderWords, n \in HeightNumbers, unit \in PhraseUnits}

ParcelFeatures ==
    { Feature(PyInt(1), PyStr(<<"R","C","-","G">>), Num(450000), Num(35), PyInt(2005),
              PyStr(<<"B","e","l","t","l","i","n","e">>)),
      Feature(PyInt(2), PyStr(<<"M","-","C","1">>), Num(2000000), PyFloat(8, Half), PyInt(1985),
              PyStr(<<"O","'","B","r","i","e","n"," ","P","a","r","k">>)),
      NoId }

(***************************************************************************)
(* Project store: storage.py                                               *)
(***************************************************************************)
\* The bound on the number of save_project calls of one behaviour.
MaxSaves == 3

\* The spelling of an attribute or operator tag.
TagText(tag) ==
    CASE tag = "zoning" -> <<"z","o","n","i","n","g">>
      [] tag = "assessed_value" -> <<"a","s","s","e","s","s","e","d","_","v","a","l","u","e">>
      [] tag = "height_m" -> <<"h","e","i","g","h","t","_","m">>
      [] tag = "year" -> <<"y","e","a","r">>
      [] tag = "community" -> <<"c","o","m","m","u","n","i","t","y">>
      [] tag = "<" -> <<"<">>
      [] tag = ">" -> <<">">>
      [] tag = "=" -> <<"=">>
      [] OTHER -> <<"i","n">>

Quoted(cs) == <<"\"">> \o cs \o <<"\"">>

\* json.dumps of a clause value, and of the list of clauses
RECURSIVE JsonValue(_)
JsonValue(v) ==
    CASE v.t = "none" -> <<"n","u","l","l">>
      [] v.t = "bool" -> IF v.n = 1 THEN <<"t","r","u","e">> ELSE <<"f","a","l","s","e">>
      [] v.t = "int" -> IntStr(v.n)
      [] v.t = "float" -> FloatStr(v.n, v.f)
      [] v.t = "str" -> Quoted(v.s)
      [] OTHER -> <<"[">> \o (IF v.l = <<>> THEN <<>>
                              ELSE JsonValue(Head(v.l)) \o
                                   (IF Len(v.l) = 1 THEN <<>>
                                    ELSE <<","," ">> \o SubSeq(JsonValue(PyList(Tail(v.l))), 2,
                                                         Len(JsonValue(PyList(Tail(v.l)))) - 1)))
                 \o <<"]">>

JsonClause(c) ==
    <<"{">> \o Quoted(<<"a","t","t","r","i","b","u","t","e">>) \o <<":"," ">> \o Quoted(TagText(c.attribute)) \o <<","," ">>
            \o Quoted(<<"o","p","e","r","a","t","o","r">>) \o <<":"," ">> \o Quoted(TagText(c.operator)) \o <<","," ">>
            \o Quoted(<<"v","a","l","u","e">>) \o <<":"," ">> \o JsonValue(c.value) \o <<"}">>

RECURSIVE JoinWith(_, _)
JoinWith(sep, items) ==
    IF items = <<>> THEN <<>>
    ELSE IF Len(items) = 1 THEN Head(items)
    ELSE Head(items) \o sep \o JoinWith(sep, Tail(items))

\* json.dumps(filters or [], ensure_ascii=False)
FiltersJson(fs) ==
    <<"[">> \o JoinWith(<<","," ">>, [k \in 1..Len(fs.l) |-> JsonClause(fs.l[k])]) \o <<"]">>

\* ",".join(str(float(x)) for x in bbox)
BboxStr(bbox) ==
    JoinWith(<<",">>, [k \in 1..Len(bbox) |-> FloatStr(ToFloat(bbox[k]).x, ToFloat(bbox[k]).f)])

\* A row of the table projects; the autoincremented id, which no statement
\* reads, is left out.
Row(username, name, q, filtersJson, bbox, limitN, updatedAt) ==
    [username |-> username, name |-> name, query |-> q, filters_json |-> filtersJson,
     bbox |-> bbox, limit_n |-> limitN, updated_at |-> updatedAt]

\* INSERT ... ON CONFLICT(username, name) DO UPDATE SET ...: the row of the
\* same username and name takes the new columns, else the row is added.
Upsert(table, row) ==
    IF \E r \in table : r.username = row.username /\ r.name = row.name
    THEN {IF r.username = row.username /\ r.name = row.name THEN row ELSE r : r \in table}
    ELSE table \cup {row}

\* The words SQLite does not take as a column alias behind AS, among those
\* of the statements of storage.py.
SqlReserved == {"select", "from", "where", "and", "as", "limit", "order", "by", "desc"}

\* SELECT query, filters_json, bbox, limit_n AS limit FROM projects WHERE ...
LoadAliases == {"limit"}

\* Whether c.execute compiles a statement with these aliases.
Prepares(aliases) == aliases \cap SqlReserved = {}

\* The outcome of the last call of the store.
NoCall == [call |-> "none"]
SaveOutcome(u, n, raised) == [call |-> "save", username |-> u, name |-> n, raised |-> raised]
LoadOutcome(u, n, raised, value) ==
    [call |-> "load", username |-> u, name |-> n, raised |-> raised, value |-> value]

(***************************************************************************)
(* _apply_filters as a state machine: one step per feature                 *)
(***************************************************************************)
\* No remote model is configured; nothing has been saved.
Unconfigured == key = PyNone /\ model = PyNone /\ reply = NoReply
EmptyTable == projects = {} /\ result = NoCall /\ clock = 0 /\ lastSaved = {}

InitWith(scenarios) ==
    /\ \E sc \in scenarios :
          /\ filters \in SeqsUpTo(sc.clauses, MaxClauses)
          /\ features \in SeqsUpTo(sc.features, MaxFeatures)
    /\ query = <<>>
    /\ i = 1
    /\ ids = {}
    /\ total = 0
    /\ pc = "loop"
    /\ Unconfigured
    /\ EmptyTable

Init == InitWith(Scenarios)

\* `if fid is None: continue`
SkipFeature ==
    /\ pc = "loop"
    /\ i <= Len(features)
    /\ IdMissing(features[i].id)
    /\ i' = i + 1
    /\ UNCHANGED <<query, filters, features, ids, total, pc, remote, store>>

\* total += 1; ids.add(fid) when the feature matches. An exception leaves
\* the function: there is no result.
ConsiderFeature ==
    /\ pc = "loop"
    /\ i <= Len(features)
    /\ ~IdMissing(features[i].id)
    /\ LET acc == LoopBody([ids |-> ids, total |-> total, raised |-> FALSE],
                           features[i], filters)
       IN  /\ ids' = acc.ids
           /\ total' = acc.total
           /\ pc' = IF acc.raised THEN "raised" ELSE pc
           /\ i' = IF acc.raised THEN i ELSE i + 1
    /\ UNCHANGED <<query, filters, features, remote, store>>

\* `return ids, total`
Return ==
    /\ pc = "loop"
    /\ i > Len(features)
    /\ pc' = "done"
    /\ UNCHANGED <<query, filters, features, i, ids, total, remote, store>>

Next == SkipFeature \/ ConsiderFeature \/ Return

Spec == Init /\ [][Next]_vars

\* The same machine on the inputs of one attribute.
ZoningInit == InitWith(ZoningScenarios)
ZoningSpec == ZoningInit /\ [][Next]_vars

NumericInit == InitWith(NumericScenarios)
NumericSpec == NumericInit /\ [][Next]_vars

CommunityInit == InitWith(CommunityScenarios)
CommunitySpec == CommunityInit /\ [][Next]_vars

\* llm_filter with no remote model configured: the query is parsed, then the
\* parsed expression is applied to the fetched features.
ParseInit ==
    /\ query \in Queries
    /\ features \in SeqsUpTo(ParcelFeatures, MaxFeatures)
    /\ filters = <<>>
    /\ i = 1
    /\ ids = {}
    /\ total = 0
    /\ pc = "parse"
    /\ Unconfigured
    /\ EmptyTable

\* q = (data.get("query") or "").strip(); filters = _maybe_huggingface_parse(q).
\* An exception leaves the handler: there is no expression to apply.
ParseQuery ==
    /\ pc = "parse"
    /\ \E r \in {MaybeHuggingfaceParse(StrStrip(query))} :
          /\ filters' = r.filters
          /\ pc' = IF r.raised THEN "parse_raised" ELSE "loop"
    /\ UNCHANGED <<query, features, i, ids, total, remote, store>>

ParseNext == ParseQuery \/ SkipFeature \/ ConsiderFeature \/ Return

ParseSpec == ParseInit /\ [][ParseNext]_vars

\* The same handler on the queries of one pattern.
ParseInitWith(queries) ==
    /\ query \in queries
    /\ features \in SeqsUpTo(ParcelFeatures, MaxFeatures)
    /\ filters = <<>>
    /\ i = 1
    /\ ids = {}
    /\ total = 0
    /\ pc = "parse"
    /\ Unconfigured
    /\ EmptyTable

MoneyInit == ParseInitWith(MoneyQueries)
MoneySpec == MoneyInit /\ [][ParseNext]_vars

RangeInit == ParseInitWith(RangeQueries)
RangeSpec == RangeInit /\ [][ParseNext]_vars

HeightInit == ParseInitWith(HeightQueries)
HeightSpec == HeightInit /\ [][ParseNext]_vars

ZoneInit == ParseInitWith(ZoneQueries)
ZoneSpec == ZoneInit /\ [][ParseNext]_vars

\* llm_filter with the remote model in any configuration.
RemoteInit ==
    /\ query \in RemoteQueries
    /\ features \in SeqsUpTo(ParcelFeatures, MaxFeatures)
    /\ filters = <<>>
    /\ i = 1
    /\ ids = {}
    /\ total = 0
    /\ pc = "parse"
    /\ key \in EnvValues
    /\ model \in EnvValues
    /\ reply \in IF Truthy(key) /\ Truthy(model) THEN RemoteReplies ELSE {NoReply}
    /\ EmptyTable

RemoteSpec == RemoteInit /\ [][ParseNext]_vars

\* The store on its own: any calls of save_project and load_project.
StoreInit ==
    /\ query = <<>>
    /\ features = <<>>
    /\ filters = <<>>
    /\ i = 1
    /\ ids = {}
    /\ total = 0
    /\ pc = "store"
    /\ Unconfigured
    /\ EmptyTable

\* The saved arguments the store holds for each key: the last ones.
Remembered(saved, u, n, q, fs, bbox, lim) ==
    {s \in saved : s.username # u \/ s.name # n}
        \cup {[username |-> u, name |-> n, query |-> q, filters |-> fs, bbox |-> bbox, limit |-> lim]}

\* save_project(username, name, query, filters, bbox, limit); time.time() is
\* the clock.
SaveProject ==
    /\ pc = "store"
    /\ clock < MaxSaves
    /\ \E u \in Usernames, n \in ProjectNames, a \in SavedArguments, bbox \in SavedBboxes :
          IF u = <<>> \/ n = <<>>
          THEN /\ result' = SaveOutcome(u, n, TRUE)
               /\ UNCHANGED <<projects, clock, lastSaved>>
          ELSE /\ projects' = Upsert(projects,
                                  Row(u, n, IF Truthy(a.query) THEN a.query.s ELSE <<>>,
                                      FiltersJson(IF Truthy(a.filters) THEN a.filters
                                                  ELSE PyList(<<>>)),
                                      BboxStr(bbox), ToInt(a.limit).x, clock))
               /\ clock' = clock + 1
               /\ result' = SaveOutcome(u, n, FALSE)
               /\ lastSaved' = Remembered(lastSaved, u, n, a.query, a.filters, bbox, a.limit)
    /\ UNCHANGED <<query, filters, features, i, ids, total, pc, remote>>

\* json.loads(r["filters_json"] or "[]") and the floats of r["bbox"], on the
\* texts save_project writes.
FiltersOfJson(text) ==
    CHOOSE fs \in {PyList(<<>>)} \cup SavedFilters : fs # PyNone /\ FiltersJson(fs) = text
BboxOfStr(text) ==
    IF text = <<>> THEN <<>>
    ELSE CHOOSE bbox \in {[k \in 1..4 |-> PyFloat(ToFloat(b[k]).x, ToFloat(b[k]).f)] : b \in SavedBboxes} :
            BboxStr(bbox) = text

\* What load_project returns for a row.
Loaded(u, n, r) ==
    [username |-> u, name |-> n, query |-> r.query, filters |-> FiltersOfJson(r.filters_json),
     bbox |-> BboxOfStr(r.bbox), limit |-> r.limit_n]

\* load_project(username, name): c.execute raises sqlite3.OperationalError
\* when the statement does not compile.
LoadProject ==
    /\ pc = "store"
    /\ \E u \in Usernames, n \in ProjectNames :
          result' =
              IF u = <<>> \/ n = <<>> THEN LoadOutcome(u, n, FALSE, PyNone)
              ELSE IF ~Prepares(LoadAliases) THEN LoadOutcome(u, n, TRUE, PyNone)
              ELSE IF \E r \in projects : r.username = u /\ r.name = n
              THEN LoadOutcome(u, n, FALSE,
                               Loaded(u, n, CHOOSE r \in projects : r.username = u /\ r.name = n))
              ELSE LoadOutcome(u, n, FALSE, PyNone)
    /\ UNCHANGED <<query, filters, features, i, ids, total, pc, remote, projects, clock, lastSaved>>

StoreNext == SaveProject \/ LoadProject

StoreSpec == StoreInit /\ [][StoreNext]_vars

\* The queries of one phrase on every list of features, the queries of
\* several phrases on one feature.
PhraseInit ==
    \/ ParseInitWith(PhraseQueries)
    \/ ParseInitWith(OrderQueries) /\ Len(features) = 1
PhraseSpec == PhraseInit /\ [][ParseNext]_vars

(***************************************************************************)
(* Properties                                                              *)
(***************************************************************************)
KnownAttrs == {"zoning", "assessed_value", "height_m", "year", "community"}
AllClauses == UNION {sc.clauses : sc \in Scenarios}

\* The features that carry a non-null id.
WithId == {k \in 1..Len(features) : features[k].id # PyNone}
\* Feature props satisfies every clause of fs.
SatisfiesEvery(props, fs) == \A j \in 1..Len(fs) : ClauseOk(fs[j], Coerced(props))
Satisfying == {k \in WithId : SatisfiesEvery(features[k], filters)}
IdsOf(K) == {features[k].id : k \in K}

\* C1: when _apply_filters returns, considered_count is the number of
\* features with a non-null id and matched_ids is exactly the set of ids of
\* those of them that satisfy every clause; with the empty expression that
\* is every feature with an id.
C1_ApplyFiltersResult ==
    pc = "done" =>
        /\ total = Cardinality(WithId)
        /\ ids = IdsOf(Satisfying)
        /\ (filters = <<>> => ids = IdsOf(WithId))

C1_Witness ==
    /\ pc = "done"
    /\ Len(filters) = 2
    /\ \E j, k \in 1..Len(features) :
          /\ IdMissing(features[j].id)
          /\ features[k].id = PyInt(0)
          /\ ids = {PyInt(0)}
          /\ total = 1

\* C2: the evaluator never raises, whatever the property values are: every
\* call of _apply_filters ends with a result.
C2_NeverRaises == pc # "raised"

\* C4: adding a clause c to the expression never adds a matched id and leaves
\* considered_count as it is.
C4_Monotonic ==
    pc = "done" =>
        \A c \in AllClauses :
            LET r == ApplyFilters(Append(filters, c), features)
            IN  ~r.raised /\ r.ids \subseteq ids /\ r.total = total

C4_Witness ==
    /\ pc = "done"
    /\ filters # <<>>
    /\ \E c \in AllClauses :
          LET r == ApplyFilters(Append(filters, c), features)
          IN  r.ids # ids /\ r.ids # {}

\* C5: two features that share an id and both match put the id once into
\* matched_ids and each add 1 to considered_count, so matched_ids is smaller
\* than the number of matching features.
C5_DedupVersusCount ==
    pc = "done" =>
        \A j, k \in Satisfying :
            (j # k /\ features[j].id = features[k].id) =>
                /\ features[j].id \in ids
                /\ Cardinality(ids) < Cardinality(Satisfying)
                /\ total = Cardinality(WithId)
                /\ total >= 2

C5_Witness ==
    /\ pc = "done"
    /\ Len(features) = 2
    /\ features[1] # features[2]
    /\ features[1].id = features[2].id
    /\ Satisfying = {1, 2}
    /\ Cardinality(ids) = 1
    /\ total = 2

\* C9: a clause on an unknown attribute (a missing attribute included),
\* inserted at any position of the expression, changes nothing of what
\* _apply_filters does.
UnknownClauses ==
    {Clause("price", "<", Num(1)),
     Clause("price", "in", PyList(<<PyStr(sRC)>>)),
     Clause("None", "None", PyNone),
     Clause("None", "<", Num(1)),
     Clause("Zoning", "in", PyList(<<PyStr(sRC)>>))}
InsertAt(fs, pos, u) == SubSeq(fs, 1, pos) \o <<u>> \o SubSeq(fs, pos + 1, Len(fs))

C9_UnknownAttributeIgnored ==
    pc \in {"done", "raised"} =>
        \A u \in UnknownClauses : \A pos \in 0..Len(filters) :
            LET r == ApplyFilters(InsertAt(filters, pos, u), features)
            IN  IF pc = "raised" THEN r.raised
                ELSE r = [ids |-> ids, total |-> total, raised |-> FALSE]

C9_Witness ==
    /\ pc = "done"
    /\ ids # {}
    /\ \E j, k \in 1..Len(filters) :
          /\ filters[j].attribute \notin KnownAttrs
          /\ filters[k].attribute \in KnownAttrs
          /\ Cardinality(ids) < Cardinality(IdsOf(WithId))

\* C6: a feature whose assessed_value, height_m or year is absent, null or
\* not coercible to a number fails every clause on that attribute, whatever
\* the operator and the value: an id is matched only through a feature that
\* has a number in every numeric attribute the expression has a clause on.
NumericAttrs == {"assessed_value", "height_m", "year"}
PropOf(props, a) ==
    CASE a = "assessed_value" -> props.assessed_value
      [] a = "height_m" -> props.height_m
      [] OTHER -> props.year
Lacks(props, a) ==
    LET v == PropOf(props, a)
    IN  \/ v.t \in {"none", "list"}
        \/ v.t = "str" /\ ~(IF a = "year" THEN ToInt(v).ok ELSE ToFloat(v).ok)
LacksSome(props, fs) ==
    \E j \in 1..Len(fs) :
        fs[j].attribute \in NumericAttrs /\ Lacks(props, fs[j].attribute)

C6_MissingFieldNeverMatches ==
    pc = "done" =>
        \A d \in ids :
            \E k \in WithId : features[k].id = d /\ ~LacksSome(features[k], filters)

C6_Witness ==
    /\ pc = "done"
    /\ ids # {}
    /\ \E k \in WithId : \E j \in 1..Len(filters) :
          /\ filters[j].attribute = "assessed_value"
          /\ filters[j].operator \notin {"<", ">", "="}
          /\ features[k].assessed_value = PyNone
          /\ features[k].id \notin ids

\* C7: a zoning clause matches a feature iff, after normalizing both sides,
\* some candidate code is non-empty and either has length <= 3 and is a prefix
\* of the feature zoning or equals it; "RC" matches "RC-G", "RC-G" does not
\* match "RC-GX", and a clause without a non-empty code matches nothing.
DashLike == {"emdash", "endash", "_", "/"}
NotSpace(c) == c # " "
ClaimNorm(cs) ==
    LET kept == SelectSeq(cs, NotSpace)
    IN  [k \in 1..Len(kept) |-> IF kept[k] \in DashLike THEN "-" ELSE UpperChar(kept[k])]
Candidates(val) == IF val.t = "list" THEN {val.l[k].s : k \in 1..Len(val.l)} ELSE {val.s}
ZoningRule(val, zv) ==
    LET z == ClaimNorm(IF zv.t = "str" THEN zv.s ELSE <<>>)
    IN  \E cand \in Candidates(val) :
            LET n == ClaimNorm(cand)
            IN  /\ n # <<>>
                /\ \/ Len(n) <= 3 /\ Len(n) <= Len(z) /\ SubSeq(z, 1, Len(n)) = n
                   \/ n = z
ZoningRuleHolds(props, fs) ==
    \A j \in 1..Len(fs) :
        fs[j].attribute = "zoning" => ZoningRule(fs[j].value, props.zoning)

C7_ZoningRule ==
    pc = "done" =>
        /\ ids = IdsOf({k \in WithId : ZoningRuleHolds(features[k], filters)})
        /\ (filters = <<ZoneClause(PyStr(sRC))>> /\ features = <<Zoned(PyInt(1), PyStr(sRCG))>>
               => ids = {PyInt(1)})
        /\ (filters = <<ZoneClause(PyStr(sRCG))>> /\ features = <<Zoned(PyInt(1), PyStr(sRCGX))>>
               => ids = {})
        /\ ((\E j \in 1..Len(filters) :
                 \A cand \in Candidates(filters[j].value) : ClaimNorm(cand) = <<>>)
               => ids = {})

C7_Witness ==
    /\ pc = "done"
    /\ filters = <<ZoneClause(PyStr(sRCG))>>
    /\ features = <<Zoned(PyInt(1), PyStr(sRCGX)), Zoned(PyInt(2), PyStr(<<"r","c","_","g">>))>>
    /\ ids = {PyInt(2)}

\* C8: a clause whose value is not of the type its attribute expects (no
\* number on assessed_value/height_m/year, no string on community, neither a
\* string nor a list of strings on zoning) matches no feature.
Mismatched(c) ==
    \/ c.attribute \in NumericAttrs /\ c.value.t \notin {"int", "float"}
    \/ c.attribute = "community" /\ c.value.t # "str"
    \/ /\ c.attribute = "zoning"
       /\ c.value.t # "str"
       /\ ~(c.value.t = "list" /\ \A k \in 1..Len(c.value.l) : c.value.l[k].t = "str")

C8_MismatchedValueNeverMatches ==
    (pc = "done" /\ \E j \in 1..Len(filters) : Mismatched(filters[j])) => ids = {}

\* C10: a community clause matches a feature iff the clause value and the
\* feature's community are equal after trimming and lower-casing and the
\* trimmed clause value is not empty; "Downtown" matches "  downtown ", and a
\* blank value matches no feature, not even one without a community.
Trimmed(cs) == StrStrip(StrLower(cs))
CommunityRule(val, cv) ==
    LET t == Trimmed(val.s)
        c == Trimmed(IF cv.t = "str" THEN cv.s ELSE <<>>)
    IN  t # <<>> /\ t = c
CommunityRuleHolds(props, fs) ==
    \A j \in 1..Len(fs) :
        fs[j].attribute = "community" => CommunityRule(fs[j].value, props.community)

C10_CommunityRule ==
    pc = "done" =>
        /\ ids = IdsOf({k \in WithId : CommunityRuleHolds(features[k], filters)})
        /\ (filters = <<CommClause(PyStr(sDowntown))>>
               /\ features = <<Located(PyInt(1), PyStr(sSpacedDowntown))>> => ids = {PyInt(1)})
        /\ ((\E j \in 1..Len(filters) :
                 filters[j].attribute = "community" /\ Trimmed(filters[j].value.s) = <<>>)
               => ids = {})

C10_Witness ==
    /\ pc = "done"
    /\ filters = <<CommClause(PyStr(sDowntown))>>
    /\ features = <<Located(PyInt(1), PyStr(sSpacedDowntown)), Located(PyInt(2), PyNone)>>
    /\ ids = {PyInt(1)}
    /\ total = 2

C10_BlankWitness ==
    /\ pc = "done"
    /\ filters = <<CommClause(PyStr(<<" ", " ">>))>>
    /\ features = <<Located(PyInt(2), PyNone), Located(PyInt(2), PyStr(<<>>))>>
    /\ ids = {}

\* An empty or whitespace-only query.
Blank(q) == StrStrip(q) = <<>>

\* C3: for every query the parser returns a list of clauses and never raises
\* (a malformed number after a comparative phrase is skipped), and for an
\* empty or whitespace-only query the list is empty.
C3_ParserNeverRaises ==
    /\ pc # "parse_raised"
    /\ (pc # "parse" /\ Blank(query)) => filters = <<>>

\* The half of C3 that the code keeps: a blank query gives the empty list.
C3_BlankQueryGivesNoClauses ==
    (pc # "parse" /\ Blank(query)) => (pc # "parse_raised" /\ filters = <<>>)

\* The rearrangements of the sequence fs.
Rearrangements(fs) ==
    {[k \in 1..Len(fs) |-> fs[p[k]]] :
        p \in {q \in [1..Len(fs) -> 1..Len(fs)] : \A a, b \in 1..Len(fs) : q[a] = q[b] => a = b}}

\* C11: once the call has ended, for every rearrangement P of the expression,
\* _apply_filters(P, F) equals _apply_filters(E, F), and every feature gets
\* the verdict from P that it gets from E: returning at the first failing
\* clause changes no verdict.
C11_OrderIndependent ==
    pc \in {"done", "raised"} =>
        \A P \in Rearrangements(filters) :
            /\ \A k \in 1..Len(features) :
                  FeatureMatchesFilters(features[k], P) = FeatureMatchesFilters(features[k], filters)
            /\ pc = "done" =>
                  ApplyFilters(P, features) = [ids |-> ids, total |-> total, raised |-> FALSE]
            /\ pc = "raised" => ApplyFilters(P, features).raised

\* A returned call with two different clauses and a feature that fails the
\* first and passes the second, so that the two orders stop at different
\* clauses, next to a feature that is matched.
C11_Witness ==
    /\ pc = "done"
    /\ Len(filters) = 2
    /\ ids # {}
    /\ \E k \in WithId :
          /\ ~Coerced(features[k]).raised
          /\ ~ClauseOk(filters[1], Coerced(features[k]))
          /\ ClauseOk(filters[2], Coerced(features[k]))

\* The value the amount a denotes: its digits with the separators removed
\* and the decimal tail, times 1,000 for the suffix k and 1,000,000 for m.
RECURSIVE Joined(_)
Joined(groups) == IF groups = <<>> THEN <<>> ELSE Head(groups) \o Joined(Tail(groups))
Denoted(a) ==
    LET whole == DigitsVal(a.lead \o Joined(a.groups))
        power == IF StrLower(a.suffix) = <<"k">> THEN 3
                 ELSE IF StrLower(a.suffix) = <<"m">> THEN 6 ELSE 0
        n == TimesPowerOfTen(Parsed(whole, FracUlps(a.tail)), power)
    IN  PyFloat(n.x, n.f)
\* An amount whose thousands separators, if it has any, are commas.
CommaSeparated(a) == a.groups = <<>> \/ a.sep = ","

\* The two clauses of the range from x to y, whichever is written first.
NotAbove(u, v) == u.n < v.n \/ (u.n = v.n /\ u.f <= v.f)
RangeClauses(x, y) ==
    LET lo == IF NotAbove(Denoted(x), Denoted(y)) THEN Denoted(x) ELSE Denoted(y)
        hi == IF NotAbove(Denoted(x), Denoted(y)) THEN Denoted(y) ELSE Denoted(x)
    IN  <<Clause("assessed_value", ">", lo), Clause("assessed_value", "<", hi)>>

\* C12: the query "between X and Y" with money amounts X and Y is parsed
\* into exactly the clause assessed_value > min(X, Y) followed by the clause
\* assessed_value < max(X, Y), whichever amount is written first.
C12_RangeParsing ==
    \A x, y \in RangeAmounts :
        (pc # "parse" /\ query = RangeText(x, y)) =>
            (pc # "parse_raised" /\ filters = RangeClauses(x, y))

\* What the code keeps of C12: the amounts without dot separators.
C12_RangeOfCommaAmounts ==
    \A x, y \in RangeAmounts :
        (pc # "parse" /\ query = RangeText(x, y) /\ CommaSeparated(x) /\ CommaSeparated(y)) =>
            (pc # "parse_raised" /\ filters = RangeClauses(x, y))

\* The range of the specification's example is parsed, larger amount first.
C12_ExampleReached ==
    /\ pc = "done"
    /\ query = <<"b","e","t","w","e","e","n"," ","$","6","0","0","k"," ","a","n","d"," ","$","4","0","0","k">>
    /\ filters = <<Clause("assessed_value", ">", Num(400000)),
                   Clause("assessed_value", "<", Num(600000))>>

\* The clauses of fs on the attribute attr, in their order.
ClausesOn(fs, attr) == SelectSeq(fs, LAMBDA c : c.attribute = attr)

\* The clause the specification expects from the phrase `word amount`.
MoneyClause(word, a) ==
    Clause("assessed_value", IF word = <<"u","n","d","e","r">> THEN "<" ELSE ">", Denoted(a))

\* C14: a money amount (optional "$", digit groups with comma or dot as the
\* thousands separator, optional decimal tail, optional suffix in either
\* case) behind a comparative phrase puts into the assessed_value clause the
\* value its digits denote with the separators removed, times 1,000 for k
\* and 1,000,000 for m: "500,000" and "500.000" are both 500000.
C14_MoneyAmount ==
    \A a \in MoneyAmounts : \A word \in {<<"u","n","d","e","r">>, <<"o","v","e","r">>} :
        (pc # "parse" /\ query = word \o <<" ">> \o AmountText(a)) =>
            /\ pc # "parse_raised"
            /\ ClausesOn(filters, "assessed_value") = <<MoneyClause(word, a)>>

\* What the code keeps of C14: the amounts without dot separators.
C14_CommaSeparatedAmount ==
    \A a \in MoneyAmounts : \A word \in {<<"u","n","d","e","r">>, <<"o","v","e","r">>} :
        (pc # "parse" /\ query = word \o <<" ">> \o AmountText(a) /\ CommaSeparated(a)) =>
            /\ pc # "parse_raised"
            /\ ClausesOn(filters, "assessed_value") = <<MoneyClause(word, a)>>

\* "$12,000.5k" is parsed to 12000500.
C14_SuffixReached ==
    /\ pc = "done"
    /\ query = <<"o","v","e","r"," ","$","1","2",",","0","0","0",".","5","k">>
    /\ filters = <<Clause("assessed_value", ">", Num(12000500))>>

\* N x 0.3048 and N itself for the numbers of the height queries.
InFeet(n) ==
    IF n = <<"1","0","0">> THEN PyFloat(30, 4800000)
    ELSE IF n = <<".","5">> THEN PyFloat(0, 1524000)
    ELSE PyFloat(2, 2098000)

InMetresAsWritten(n) ==
    IF n = <<"1","0","0">> THEN PyFloat(100, 0)
    ELSE IF n = <<".","5">> THEN PyFloat(0, 5000000)
    ELSE PyFloat(7, 2500000)

HeightClause(word, n, unit) ==
    Clause("height_m", IF word \in OverWords THEN ">" ELSE "<",
           IF unit \in FeetWords THEN InFeet(n) ELSE InMetresAsWritten(n))

\* C13: a phrase "over/greater than/above N <unit>" (resp. "under/less
\* than/below N <unit>") gives exactly one height_m clause, with operator '>'
\* (resp. '<') and value N x 0.3048 when the unit is ft, feet or foot and N
\* unchanged when it is m, meter(s) or metre(s); "buildings over 100 feet"
\* gives {height_m, >, 30.48}.
C13_HeightUnitConversion ==
    /\ \A word \in OverWords \cup UnderWords, n \in HeightNumbers,
          gap \in {<<>>, <<" ">>}, unit \in FeetWords \cup MetreWords :
          (pc # "parse" /\ query = HeightText(word, n, gap, unit)) =>
              /\ pc # "parse_raised"
              /\ ClausesOn(filters, "height_m") = <<HeightClause(word, n, unit)>>
    /\ (pc # "parse" /\ query = <<"b","u","i","l","d","i","n","g","s"," ","o","v","e","r"," ","1","0","0"," ","f","e","e","t">>) =>
          ClausesOn(filters, "height_m") = <<Clause("height_m", ">", PyFloat(30, 4800000))>>
    /\ (pc # "parse" /\ query = <<"T","o","w","e","r","s"," ","B","E","L","O","W"," ","7",".","2","5"," ","M","e","t","r","e","s"," ","t","a","l","l">>) =>
          ClausesOn(filters, "height_m") = <<Clause("height_m", "<", PyFloat(7, 2500000))>>

\* "buildings over 100 feet" has been parsed and applied.
C13_Witness ==
    /\ pc = "done"
    /\ query = <<"b","u","i","l","d","i","n","g","s"," ","o","v","e","r"," ","1","0","0"," ","f","e","e","t">>
    /\ Clause("height_m", ">", PyFloat(30, 4800000)) \in {filters[k] : k \in 1..Len(filters)}

CodeList(codes) == PyList([k \in 1..Len(codes) |-> PyStr(codes[k])])

\* The zoning clauses C15 allows for the parts of a query: the keyword's run
\* when there is a keyword, else the region's codes unless a community word
\* is mentioned.
ZoningExpected(k, r, c) ==
    IF k.text # <<>>
    THEN (IF k.codes = <<>> THEN <<>> ELSE <<Clause("zoning", "in", CodeList(k.codes))>>)
    ELSE IF c.mention \/ r.text = <<>> THEN <<>>
    ELSE <<Clause("zoning", "in", CodeList(r.codes))>>

CommunityExpected(c) ==
    IF c.name = <<>> THEN <<>> ELSE <<Clause("community", "=", PyStr(c.name))>>

\* C15: a query gets at most one zoning clause; the "in <region>" fallback
\* gives it only when no zoning/zone/district keyword introduced a run of
\* codes, and never when the query mentions community, neighbourhood or
\* neighborhood; "in <name> community" alone gives the community '=' clause
\* with the Title-Cased name and nothing else.
C15_ZoningFallback ==
    /\ Len(ClausesOn(filters, "zoning")) <= 1
    /\ \A k \in KeywordParts, r \in RegionParts, c \in CommunityParts, rev \in BOOLEAN :
          (pc # "parse" /\ query = ZoneQuery(k, r, c, rev)) =>
              /\ pc # "parse_raised"
              /\ ClausesOn(filters, "zoning") = ZoningExpected(k, r, c)
              /\ ClausesOn(filters, "community") = CommunityExpected(c)
              /\ (k.text = <<>> /\ r.text = <<>>) => filters = CommunityExpected(c)
    /\ (pc # "parse" /\ query = <<"I","n"," ","B","e","l","t","l","i","n","e"," ","C","o","m","m","u","n","i","t","y">>) =>
          filters = <<Clause("community", "=", PyStr(<<"B","e","l","t","l","i","n","e">>))>>

\* "in dc community" next to "in dc or m-c1": the region is not read as
\* zoning codes, and the community clause is the only one.
C15_Witness ==
    /\ pc = "done"
    /\ query = <<"i","n"," ","d","c"," ","o","r"," ","m","-","c","1",";"," ","i","n"," ","d","c"," ","c","o","m","m","u","n","i","t","y">>
    /\ filters = <<Clause("community", "=", PyStr(<<"D","c">>))>>

\* The remote model is configured, and its answer holds a list of filters.
Configured == key \notin {PyNone, PyStr(<<>>)} /\ model \notin {PyNone, PyStr(<<>>)}
RemoteGaveList ==
    /\ Configured
    /\ reply.status = "ok"
    /\ reply.kind # "scalars"
    /\ reply.out.braces /\ reply.out.valid
    /\ reply.out.filters.t = "list"

\* C16: _maybe_huggingface_parse(q) is _parse_text_to_filters(q), on the same
\* q, when the remote model is not configured or the remote attempt fails in
\* any way (exception, no JSON object, "filters" not a list); the remote
\* result is returned only when it is a list; the remote failure never
\* reaches the caller.
C16_RemoteFallback ==
    pc # "parse" =>
        IF RemoteGaveList
        THEN pc # "parse_raised" /\ filters = reply.out.filters.l
        ELSE /\ (pc = "parse_raised") = ParseTextToFilters(StrStrip(query)).raised
             /\ pc # "parse_raised" => filters = ParseTextToFilters(StrStrip(query)).filters

\* The remote exchange raised, and the deterministic parser's clauses were
\* applied.
C16_Witness ==
    /\ pc = "done"
    /\ Configured
    /\ reply = RemoteRaises
    /\ Len(filters) = 2
    /\ filters = ParseTextToFilters(StrStrip(query)).filters

\* What a key-value store with last-write-wins gives for (u, n): the
\* arguments of the last save, query defaulting to "" and filters to [].
LastWrite(u, n) ==
    IF \E s \in lastSaved : s.username = u /\ s.name = n
    THEN With(CHOOSE s \in lastSaved : s.username = u /\ s.name = n, LAMBDA s :
            [username |-> u, name |-> n,
             query |-> IF s.query = PyNone THEN <<>> ELSE s.query.s,
             filters |-> IF s.filters = PyNone THEN PyList(<<>>) ELSE s.filters,
             bbox |-> [k \in 1..Len(s.bbox) |-> PyFloat(ToFloat(s.bbox[k]).x, ToFloat(s.bbox[k]).f)],
             limit |-> s.limit.n])
    ELSE PyNone

OneRowPerKey ==
    \A r1, r2 \in projects : (r1.username = r2.username /\ r1.name = r2.name) => r1 = r2

\* C17: the store holds at most one record per (username, name);
\* load_project(u, n) returns the query, filters, bbox and limit of the most
\* recent save_project(u, n, ...), and None when (u, n) was never saved;
\* saves of other keys do not change that.
C17_LastWriteWins ==
    /\ OneRowPerKey
    /\ result.call = "load" => (~result.raised /\ result.value = LastWrite(result.username, result.name))

\* What the code keeps of C17: the table holds one row per saved key, with
\* the columns of the key's last save.
C17_TableHoldsLastWrites ==
    /\ OneRowPerKey
    /\ {<<r.username, r.name>> : r \in projects} = {<<s.username, s.name>> : s \in lastSaved}
    /\ \A r \in projects : Loaded(r.username, r.name, r) = LastWrite(r.username, r.name)

\* A key saved twice, and another key saved once.
C17_OverwriteReached ==
    /\ clock = 3
    /\ Cardinality(projects) = 2
    /\ \E r \in projects : r.updated_at = 2 /\ r.limit_n = 50
    /\ \E r \in projects : r.updated_at = 1

\* The features the loop has gone through.
Processed == {k \in WithId : k < i}
SameId(j, k) == features[j].id = features[k].id

\* C18: an id carried by several features is matched iff at least one of
\* them satisfies every clause, whatever the others do; a feature that does
\* not match never takes out an id an earlier feature put in; and there are
\* never more matched ids than considered features.
C18_SharedIdMixedVerdicts ==
    /\ Cardinality(ids) <= total
    /\ \A k \in Processed : SatisfiesEvery(features[k], filters) => features[k].id \in ids
    /\ pc = "done" =>
          \A k \in WithId :
              features[k].id \in ids <=>
                  \E j \in WithId : SameId(j, k) /\ SatisfiesEvery(features[j], filters)

\* Two features of one id: the first satisfies every clause, the second
\* does not, and the id is matched.
C18_Witness ==
    /\ pc = "done"
    /\ filters # <<>>
    /\ Len(features) = 2 /\ WithId = {1, 2} /\ SameId(1, 2)
    /\ SatisfiesEvery(features[1], filters)
    /\ ~SatisfiesEvery(features[2], filters)
    /\ ids = {features[1].id}
    /\ total = 2

\* A clause on a numeric attribute whose operator is none of '<', '>', '=',
\* and whether its value coerces to the attribute's number type.
Unrecognized(c) == c.attribute \in NumericAttrs /\ c.operator \notin {"<", ">", "="}
ValueCoerces(c) == IF c.attribute = "year" THEN ToInt(c.value).ok ELSE ToFloat(c.value).ok
PassesUncompared(props, fs) ==
    \A j \in 1..Len(fs) : ValueCoerces(fs[j]) /\ ~Lacks(props, fs[j].attribute)

\* C19: a clause on assessed_value, height_m or year with an operator other
\* than '<', '>', '=' compares nothing: with a coercible value it matches
\* exactly the features in which the attribute is present and coercible,
\* and with a non-coercible value it matches none.
C19_UnrecognizedOperator ==
    (pc = "done" /\ \A j \in 1..Len(filters) : Unrecognized(filters[j])) =>
        ids = IdsOf({k \in WithId : PassesUncompared(features[k], filters)})

\* Expressions 'assessed_value in 1' or 'height_m <= 1' have matched a
\* feature whose value is neither 1 nor below it, and left out a feature
\* without the attribute.
C19_Witness ==
    /\ pc = "done"
    /\ filters # <<>>
    /\ \A j \in 1..Len(filters) :
          /\ Unrecognized(filters[j]) /\ ValueCoerces(filters[j])
          /\ filters[j].operator \in {"in", "<="}
          /\ filters[j].value \in {PyInt(1), Num(1)}
    /\ \E k \in WithId :
          /\ features[k].id \in ids
          /\ features[k].assessed_value = Num(5) /\ features[k].height_m = Num(2)
    /\ \E k \in WithId : features[k].id \notin ids

\* N, and N x 1,000,000, for the numbers of the height queries.
AsWritten(n) == InMetresAsWritten(n)
InMillions(n) ==
    IF n = <<"1","0","0">> THEN Num(100000000)
    ELSE IF n = <<".","5">> THEN Num(500000)
    ELSE Num(7250000)

\* The assessed_value clause C20 expects from "<word> N <unit>".
PhraseMoneyClause(word, n, unit) ==
    Clause("assessed_value", IF word \in OverWords THEN ">" ELSE "<",
           IF Head(unit) = "m" THEN InMillions(n) ELSE AsWritten(n))

Positions(fs, attr) == {k \in 1..Len(fs) : fs[k].attribute = attr}

\* The clauses of the query of several phrases, in the order of the patterns.
OrderedClauses ==
    << Clause("zoning", "in", CodeList(<<<<"R","C","-","G">>>>)),
       Clause("assessed_value", "<", Num(100)),
       Clause("assessed_value", ">", Num(3)),
       Clause("assessed_value", ">", Num(400000)),
       Clause("assessed_value", "<", Num(600000)),
       Clause("height_m", "<", PyFloat(30, 4800000)),
       Clause("height_m", ">", Num(9)),
       Clause("year", "<", PyInt(1999)),
       Clause("community", "=", PyStr(<<"B","e","l","t","l","i","n","e">>)) >>

PhraseAlsoMoney(numbers) ==
    \A word \in OverWords \cup UnderWords, n \in numbers, unit \in PhraseUnits :
        (pc # "parse" /\ query = HeightText(word, n, <<" ">>, unit)) =>
            /\ pc # "parse_raised"
            /\ ClausesOn(filters, "assessed_value") = <<PhraseMoneyClause(word, n, unit)>>
            /\ \A a \in Positions(filters, "assessed_value"), h \in Positions(filters, "height_m") :
                  a < h

FixedOrder == (pc # "parse" /\ query \in OrderQueries) => filters = OrderedClauses

\* C20: a phrase "over/above/greater than N" (resp. "under/below/less than
\* N") followed by a height unit or a floors word also gives, before the
\* height_m clause, an assessed_value clause with the same operator and the
\* value N, or N x 1,000,000 when the unit begins with m; the clauses come
\* in the order of the patterns whatever the order of the phrases.
C20_HeightPhraseAlsoMoney == PhraseAlsoMoney(HeightNumbers) /\ FixedOrder

\* C20 as amended: the same for a number N that begins with a digit.
C20_LeadingDigitPhraseAlsoMoney ==
    PhraseAlsoMoney({n \in HeightNumbers : IsDigit(Head(n))}) /\ FixedOrder

\* "under 7.25 metres" has given assessed_value < 7250000 before
\* height_m < 7.25.
C20_Witness ==
    /\ pc = "done"
    /\ query = <<"u","n","d","e","r"," ","7",".","2","5"," ","m","e","t","r","e","s">>
    /\ filters = <<Clause("assessed_value", "<", Num(7250000)),
                   Clause("height_m", "<", PyFloat(7, 2500000))>>
====
